---- MODULE Spec2Model ----
(***************************************************************************)
(* Model of the invoice extraction scripts under src/src/pdf.              *)
(*                                                                         *)
(* Text is a sequence of one-character strings, so that the string         *)
(* operations of the code (strip, split, lower, substring tests, float     *)
(* parsing, regular-expression token shapes) are computed and not assumed. *)
(* A value that may be None is held as a sequence of length at most one:   *)
(* None is << >> and a present value v is Some(v) = <<v>>.  A float is     *)
(* held as an integer number of hundredths (21.00 is 2100); the texts the  *)
(* model draws carry at most two fractional digits, no exponent and no     *)
(* letters inside numbers.                                                 *)
(*                                                                         *)
(* A value the code computes once and reads several times is handed to a   *)
(* further operator as an argument (F(x) == FWith(x, G(x))), which keeps   *)
(* every intermediate value computed in one place.                         *)
(***************************************************************************)
EXTENDS Integers, Sequences, FiniteSets, TLC

None == << >>

Some(v) == <<v>>

Val(o) == o[1]

(***************************************************************************)
(* Characters and strings                                                  *)
(***************************************************************************)
DigitChars == {"0", "1", "2", "3", "4", "5", "6", "7", "8", "9"}

UpperChars == {"A", "B", "C", "D", "E", "F", "G", "H", "I", "J", "K", "L", "M",
               "N", "O", "P", "Q", "R", "S", "T", "U", "V", "W", "X", "Y", "Z"}

LowerChars == {"a", "b", "c", "d", "e", "f", "g", "h", "i", "j", "k", "l", "m",
               "n", "o", "p", "q", "r", "s", "t", "u", "v", "w", "x", "y", "z"}

DigitVal(c) ==
    CASE c = "0" -> 0 [] c = "1" -> 1 [] c = "2" -> 2 [] c = "3" -> 3
      [] c = "4" -> 4 [] c = "5" -> 5 [] c = "6" -> 6 [] c = "7" -> 7
      [] c = "8" -> 8 [] c = "9" -> 9

DigitChar(d) ==
    CASE d = 0 -> "0" [] d = 1 -> "1" [] d = 2 -> "2" [] d = 3 -> "3"
      [] d = 4 -> "4" [] d = 5 -> "5" [] d = 6 -> "6" [] d = 7 -> "7"
      [] d = 8 -> "8" [] d = 9 -> "9"

\* str.lower() on one character
LowerChar(c) ==
    CASE c = "A" -> "a" [] c = "B" -> "b" [] c = "C" -> "c" [] c = "D" -> "d"
      [] c = "E" -> "e" [] c = "F" -> "f" [] c = "G" -> "g" [] c = "H" -> "h"
      [] c = "I" -> "i" [] c = "J" -> "j" [] c = "K" -> "k" [] c = "L" -> "l"
      [] c = "M" -> "m" [] c = "N" -> "n" [] c = "O" -> "o" [] c = "P" -> "p"
      [] c = "Q" -> "q" [] c = "R" -> "r" [] c = "S" -> "s" [] c = "T" -> "t"
      [] c = "U" -> "u" [] c = "V" -> "v" [] c = "W" -> "w" [] c = "X" -> "x"
      [] c = "Y" -> "y" [] c = "Z" -> "z" [] OTHER -> c

\* str.lower()
Lower(s) == [i \in 1..Len(s) |-> LowerChar(s[i])]

\* what \s matches, and what str.strip() removes
IsWs(c) == c \in {" ", "\n", "\t"}

IsLetter(c) == c \in UpperChars \cup LowerChars

\* the first and last positions of s holding no whitespace (0 when none)
FirstNonWs(s) ==
    IF \E i \in 1..Len(s) : ~IsWs(s[i])
    THEN CHOOSE i \in 1..Len(s) : ~IsWs(s[i]) /\ \A j \in 1..(i - 1) : IsWs(s[j])
    ELSE 0

LastNonWs(s) ==
    IF \E i \in 1..Len(s) : ~IsWs(s[i])
    THEN CHOOSE i \in 1..Len(s) : ~IsWs(s[i]) /\ \A j \in (i + 1)..Len(s) : IsWs(s[j])
    ELSE 0

StripBetween(s, first, last) == IF first = 0 THEN << >> ELSE SubSeq(s, first, last)

\* str.strip()
Strip(s) == StripBetween(s, FirstNonWs(s), LastNonWs(s))

\* The character-wise rewrites below build their result over a range lo..hi of
\* positions of s, split in halves, so that long texts need no deep recursion.

\* str.replace(c, '') for a single character c
RECURSIVE RemoveCharIn(_, _, _, _)
RemoveCharIn(s, c, lo, hi) ==
    IF lo > hi THEN << >>
    ELSE IF lo = hi THEN (IF s[lo] = c THEN << >> ELSE <<s[lo]>>)
    ELSE RemoveCharIn(s, c, lo, (lo + hi) \div 2) \o RemoveCharIn(s, c, (lo + hi) \div 2 + 1, hi)

RemoveChar(s, c) == RemoveCharIn(s, c, 1, Len(s))

\* str.replace('\n', ' ')
ReplaceNl(s) == [i \in 1..Len(s) |-> IF s[i] = "\n" THEN " " ELSE s[i]]

\* re.sub(r'\s+', ' ', s): every run of whitespace becomes one space
RECURSIVE CollapseWsIn(_, _, _)
CollapseWsIn(s, lo, hi) ==
    IF lo > hi THEN << >>
    ELSE IF lo = hi
    THEN (IF ~IsWs(s[lo]) THEN <<s[lo]>>
          ELSE IF lo > 1 /\ IsWs(s[lo - 1]) THEN << >>
          ELSE <<" ">>)
    ELSE CollapseWsIn(s, lo, (lo + hi) \div 2) \o CollapseWsIn(s, (lo + hi) \div 2 + 1, hi)

CollapseWs(s) == CollapseWsIn(s, 1, Len(s))

\* str.split(sep) for a single character sep: always at least one part
\* the position of the k-th separator; 0 before the first, Len(s) + 1 after the last
CutPos(s, cuts, k) ==
    IF k = 0 THEN 0
    ELSE IF k > Cardinality(cuts) THEN Len(s) + 1
    ELSE CHOOSE i \in cuts : Cardinality({j \in cuts : j <= i}) = k

\* the parts of s between the separator positions cuts
SplitAt(s, cuts) ==
    [k \in 1..(Cardinality(cuts) + 1) |->
        SubSeq(s, CutPos(s, cuts, k - 1) + 1, CutPos(s, cuts, k) - 1)]

SplitOn(s, sep) == SplitAt(s, {i \in 1..Len(s) : s[i] = sep})

\* sub in s
Contains(s, sub) ==
    \E i \in 0..(Len(s) - Len(sub)) : SubSeq(s, i + 1, i + Len(sub)) = sub

\* str.isdigit()
IsDigitStr(s) == s # << >> /\ \A i \in 1..Len(s) : s[i] \in DigitChars

\* the value of a string of digits
RECURSIVE DigitsVal(_)
DigitsVal(s) ==
    IF s = << >> THEN 0
    ELSE 10 * DigitsVal(SubSeq(s, 1, Len(s) - 1)) + DigitVal(s[Len(s)])

\* str(n) for an integer n >= 0
RECURSIVE NatStr(_)
NatStr(n) ==
    IF n < 10 THEN <<DigitChar(n)>> ELSE NatStr(n \div 10) \o <<DigitChar(n % 10)>>

\* str(n) for an integer
IntStr(n) == IF n < 0 THEN <<"-">> \o NatStr(0 - n) ELSE NatStr(n)

\* the digits after the point of repr(a / 100), a >= 0: one digit, or two
FracStr(a) ==
    IF a % 10 = 0 THEN <<DigitChar((a % 100) \div 10)>>
    ELSE <<DigitChar((a % 100) \div 10), DigitChar(a % 10)>>

\* str(x) for a float x held in hundredths: 2100 is '21.0', 2125 is '21.25'
FloatStr(x) ==
    IF x < 0 THEN <<"-">> \o NatStr((0 - x) \div 100) \o <<".">> \o FracStr(0 - x)
    ELSE NatStr(x \div 100) \o <<".">> \o FracStr(x)

(***************************************************************************)
(* float(s): optional sign, digits with at most one point and at least one *)
(* digit, surrounding whitespace ignored.  The result is in hundredths, or *)
(* None where float() raises ValueError.                                   *)
(***************************************************************************)
AllDigits(s) == \A i \in 1..Len(s) : s[i] \in DigitChars

\* the fraction digits as hundredths: '5' is 50, '05' is 5, '' is 0
FracVal(fp) ==
    IF Len(fp) = 0 THEN 0
    ELSE IF Len(fp) = 1 THEN 10 * DigitVal(fp[1])
    ELSE DigitsVal(fp)

ParseIntFrac(ip, fp) ==
    IF AllDigits(ip) /\ AllDigits(fp) /\ Len(ip) + Len(fp) >= 1 /\ Len(fp) <= 2
    THEN Some(100 * DigitsVal(ip) + FracVal(fp))
    ELSE None

ParseParts(parts) ==
    IF Len(parts) > 2 THEN None
    ELSE ParseIntFrac(parts[1], IF Len(parts) = 2 THEN parts[2] ELSE << >>)

ParseUnsigned(body) == ParseParts(SplitOn(body, "."))

Negated(o) == IF o = None THEN None ELSE Some(0 - Val(o))

ParseStripped(s) ==
    IF s # << >> /\ s[1] = "-" THEN Negated(ParseUnsigned(Tail(s)))
    ELSE IF s # << >> /\ s[1] = "+" THEN ParseUnsigned(Tail(s))
    ELSE ParseUnsigned(s)

ParseFloat(s0) == ParseStripped(Strip(s0))

\* int(x) for a float x in hundredths: truncation towards zero
TruncInt(x) == IF x < 0 THEN 0 - ((0 - x) \div 100) ELSE x \div 100

\* fnum(s): s is None or Some(string)
fnum(s) ==
    IF s = None THEN None
    ELSE ParseFloat(RemoveChar(Strip(Val(s)), ","))

\* str(c or '') for a table cell c, which is None or Some(string)
CellStr(c) == IF c = None THEN << >> ELSE Val(c)

(***************************************************************************)
(* Texts the code compares against                                         *)
(***************************************************************************)
T_sr == <<"s", "r">>

T_item == <<"i", "t", "e", "m">>

T_description == <<"d", "e", "s", "c", "r", "i", "p", "t", "i", "o", "n">>

T_qty == <<"q", "t", "y">>

T_hsn == <<"h", "s", "n">>

T_total == <<"t", "o", "t", "a", "l">>

T_item_total == <<"i", "t", "e", "m", " ", "t", "o", "t", "a", "l">>

T_invoice_value == <<"i", "n", "v", "o", "i", "c", "e", " ", "v", "a", "l", "u", "e">>

(***************************************************************************)
(* A line item: the dictionary the Zepto paths append.  sr and qty are     *)
(* None or Some(integer), hsn is None or Some(string), name is a string,   *)
(* every other field is None or Some(hundredths).                          *)
(***************************************************************************)
TableItem(sr, name, hsn, qty, total) ==
    [sr |-> sr, name |-> name, hsn |-> hsn, qty |-> qty,
     rate |-> None, discount_pct |-> None, taxable |-> None,
     cgst_pct |-> None, sgst_pct |-> None, cgst_amt |-> None, sgst_amt |-> None,
     cess_pct |-> None, cess_amt |-> None, total |-> total]

(***************************************************************************)
(* table_extract_items: the grid-line table path.                          *)
(* A table is a sequence of rows, a row a sequence of cells, a cell None   *)
(* or Some(string).  Column indices are 1-based here (the code's i is the  *)
(* model's i + 1) and 0 stands for None.                                   *)
(***************************************************************************)

\* header = [str(c or '').strip().lower().replace('\n', ' ') for c in tb[0]]
GridHeader(tb) ==
    [i \in 1..Len(tb[1]) |-> ReplaceNl(Lower(Strip(CellStr(tb[1][i]))))]

\* next((i for i, c in enumerate(header) if P(c)), None)
FirstIdx(header, P(_)) ==
    IF \E i \in 1..Len(header) : P(header[i])
    THEN CHOOSE i \in 1..Len(header) :
            P(header[i]) /\ \A j \in 1..(i - 1) : ~P(header[j])
    ELSE 0

IsDescHeader(c) == Contains(c, T_item) /\ Contains(c, T_description)

IsQtyHeader(c) == Contains(c, T_qty)

IsHsnHeader(c) == Contains(c, T_hsn)

IsTotalHeader(c) == Contains(c, T_total)

IdxDesc(header) == FirstIdx(header, IsDescHeader)

IdxQty(header) == FirstIdx(header, IsQtyHeader)

IdxHsn(header) == FirstIdx(header, IsHsnHeader)

\* for i, c in enumerate(header): if 'total' in c: idx_total = i
IdxTotal(header) ==
    IF \E i \in 1..Len(header) : IsTotalHeader(header[i])
    THEN CHOOSE i \in 1..Len(header) :
            IsTotalHeader(header[i]) /\ \A j \in (i + 1)..Len(header) : ~IsTotalHeader(header[j])
    ELSE 0

\* [x for x in parts if x.strip()], each stripped and whitespace-collapsed
RECURSIVE KeepNonBlank(_)
KeepNonBlank(parts) ==
    IF parts = << >> THEN << >>
    ELSE IF Strip(Head(parts)) = << >> THEN KeepNonBlank(Tail(parts))
    ELSE <<CollapseWs(Strip(Head(parts)))>> \o KeepNonBlank(Tail(parts))

\* splitcell(v) for a string v
splitcell(v) == KeepNonBlank(SplitOn(v, "\n"))

\* the columns found in the header row; 0 stands for None
Cols(desc, hsn, qty, total) == [desc |-> desc, hsn |-> hsn, qty |-> qty, total |-> total]

\* splitcell(row[idx]) if idx is not None and idx < len(row) else []
SplitCol(row, idx) ==
    IF idx # 0 /\ idx <= Len(row) THEN splitcell(CellStr(row[idx])) ELSE << >>

TruncOpt(o) == IF o = None THEN None ELSE Some(TruncInt(Val(o)))

\* int(float(q)) under try/except: None when float() raises
IntOfFloat(q) == TruncOpt(ParseFloat(q))

Max2(a, b) == IF a >= b THEN a ELSE b

\* the candidate of one position of a merged row, as a list of 0 or 1 items:
\* a position without name or without total is skipped
MultiItem(sr, name, hsn, qty, total) ==
    IF name = << >> THEN << >>
    ELSE IF total = None THEN << >>
    ELSE <<TableItem(sr, name, hsn, qty, total)>>

\* position i2 (1-based) of the sub-values of a merged row
MultiCandidate(srs, descs, hsns, qtys, totals, i2) ==
    MultiItem(IF i2 <= Len(srs) /\ IsDigitStr(srs[i2]) THEN Some(DigitsVal(srs[i2])) ELSE None,
              IF i2 <= Len(descs) THEN descs[i2] ELSE << >>,
              IF i2 <= Len(hsns) THEN Some(hsns[i2]) ELSE None,
              IF i2 <= Len(qtys) THEN IntOfFloat(qtys[i2]) ELSE None,
              IF i2 <= Len(totals) THEN fnum(Some(totals[i2])) ELSE None)

RECURSIVE MultiFrom(_, _, _, _, _, _, _)
MultiFrom(srs, descs, hsns, qtys, totals, i2, n) ==
    IF i2 > n THEN << >>
    ELSE MultiCandidate(srs, descs, hsns, qtys, totals, i2)
         \o MultiFrom(srs, descs, hsns, qtys, totals, i2 + 1, n)

\* n = max(len(descs), len(totals), len(srs), len(hsns), len(qtys)); for i2 in range(n)
MultiZip(srs, descs, hsns, qtys, totals) ==
    MultiFrom(srs, descs, hsns, qtys, totals, 1,
              Max2(Max2(Max2(Len(descs), Len(totals)), Max2(Len(srs), Len(hsns))), Len(qtys)))

\* the branch for several items merged into one table row
MultiRowItems(row, first_raw, desc_raw, cols) ==
    MultiZip(splitcell(first_raw), splitcell(desc_raw),
             SplitCol(row, cols.hsn), SplitCol(row, cols.qty), SplitCol(row, cols.total))

\* str(row[idx] or '').strip() if idx is not None and idx < len(row), else ''
ColText(row, idx) ==
    IF idx # 0 /\ idx <= Len(row) THEN Strip(CellStr(row[idx])) ELSE << >>

\* qty = int(float(q)) if q else None, None too when float() raises
QtyOf(q) == IF q = << >> THEN None ELSE IntOfFloat(q)

\* hsn = str(...).strip() or None
HsnOf(h) == IF h = << >> THEN None ELSE Some(h)

\* a row without a usable total is skipped
SingleItem(sr, desc, hsn, qty, total) ==
    IF total = None THEN << >> ELSE <<TableItem(sr, desc, hsn, qty, total)>>

\* the branch for one item per table row, reached with cols.total <= Len(row)
SingleRowItems(row, first_raw, desc_raw, cols) ==
    SingleItem(IF IsDigitStr(first_raw) THEN Some(DigitsVal(first_raw)) ELSE None,
               CollapseWs(desc_raw),
               HsnOf(ColText(row, cols.hsn)),
               QtyOf(ColText(row, cols.qty)),
               fnum(Some(Strip(CellStr(row[cols.total])))))

(***************************************************************************)
(* One iteration of `for row in tb[1:]`: the items the row appends, or     *)
(* raised = TRUE where the code indexes the row past its end (IndexError,  *)
(* which nothing in table_extract_items or main catches).                  *)
(***************************************************************************)
Result(raised, list) == [raised |-> raised, items |-> list]

\* from desc_raw = str(row[idx_desc] or '').strip() on
GridRowDesc(row, cols, first_raw, desc_raw) ==
    IF desc_raw = << >> THEN Result(FALSE, << >>)
    ELSE IF Contains(first_raw, <<"\n">>) \/ Contains(desc_raw, <<"\n">>)
    THEN Result(FALSE, MultiRowItems(row, first_raw, desc_raw, cols))
    ELSE IF cols.total > Len(row) THEN Result(TRUE, << >>)
    ELSE Result(FALSE, SingleRowItems(row, first_raw, desc_raw, cols))

\* from first_raw = str(row[0] or '').strip() on
GridRowFirst(row, cols, first_raw) ==
    IF Lower(first_raw) \in {T_item_total, T_total, T_invoice_value} THEN Result(FALSE, << >>)
    ELSE IF cols.desc > Len(row) THEN Result(TRUE, << >>)
    ELSE GridRowDesc(row, cols, first_raw, Strip(CellStr(row[cols.desc])))

GridRow(row, cols) ==
    IF row = << >> THEN Result(FALSE, << >>)
    ELSE GridRowFirst(row, cols, Strip(CellStr(row[1])))

\* the items of a row followed by the outcome of the rows after it
ThenRows(one, rest) == Result(rest.raised, one.items \o rest.items)

\* the rows from position r on, stopping at the first that raises
RECURSIVE GridRowsFrom(_, _, _)
RECURSIVE GridRowsAfter(_, _, _, _)
GridRowsAfter(tb, r, cols, one) ==
    IF one.raised THEN one ELSE ThenRows(one, GridRowsFrom(tb, r + 1, cols))

GridRowsFrom(tb, r, cols) ==
    IF r > Len(tb) THEN Result(FALSE, << >>)
    ELSE GridRowsAfter(tb, r, cols, GridRow(tb[r], cols))

\* if idx_desc is None or idx_total is None: continue
GridTableCols(tb, cols) ==
    IF cols.desc = 0 \/ cols.total = 0 THEN Result(FALSE, << >>)
    ELSE GridRowsFrom(tb, 2, cols)

GridTableHeader(tb, header) ==
    GridTableCols(tb, Cols(IdxDesc(header), IdxHsn(header), IdxQty(header), IdxTotal(header)))

\* the body of `for page in pages` from `tb = tbs[0]` on
GridTable(tb) ==
    IF tb = << >> THEN Result(TRUE, << >>)
    ELSE GridTableHeader(tb, GridHeader(tb))

(***************************************************************************)
(* Regular-expression pieces.  The row and line patterns are sequences of  *)
(* fields separated by \s+, so they are matched on the text's tokens (its  *)
(* maximal runs of non-blank characters); the shape of each token is       *)
(* decided character by character.  The serial number and the total are    *)
(* matched as whole tokens: the texts drawn hold no token that merely ends *)
(* or starts with such a number.                                           *)
(***************************************************************************)

\* \w
IsWordChar(c) == c \in DigitChars \/ IsLetter(c) \/ c = "_"

\* ' '.join(parts)
RECURSIVE JoinSp(_)
JoinSp(parts) ==
    IF parts = << >> THEN << >>
    ELSE IF Len(parts) = 1 THEN parts[1]
    ELSE parts[1] \o <<" ">> \o JoinSp(Tail(parts))

\* the tokens of a text whose whitespace runs are single spaces, stripped
Tokens(s) == IF s = << >> THEN << >> ELSE SplitOn(s, " ")

\* \d+\.\d{lo,hi} as a whole string
IsDecParts(parts, lo, hi) ==
    /\ Len(parts) = 2
    /\ IsDigitStr(parts[1])
    /\ IsDigitStr(parts[2])
    /\ Len(parts[2]) >= lo
    /\ Len(parts[2]) <= hi

IsDecFrac(t, lo, hi) == IsDecParts(SplitOn(t, "."), lo, hi)

\* \d+(?:\.\d{1,2})?
IsMoneyLoose(t) == IsDigitStr(t) \/ IsDecFrac(t, 1, 2)

\* \d+\.\d{2}
IsMoneyStrict(t) == IsDecFrac(t, 2, 2)

\* \d+(?:\.\d+)?
IsNumLoose(t) == IsDigitStr(t) \/ IsDecFrac(t, 1, Len(t))

\* \d+\.\d+
IsNumStrict(t) == IsDecFrac(t, 1, Len(t))

ChopLast(t) == SubSeq(t, 1, Len(t) - 1)

EndsPct(t) == t # << >> /\ t[Len(t)] = "%"

\* \d+(?:\.\d+)?%
IsPctLoose(t) == EndsPct(t) /\ IsNumLoose(ChopLast(t))

\* \d+\.\d+%
IsPctStrict(t) == EndsPct(t) /\ IsNumStrict(ChopLast(t))

\* \d+(?:\.\d+)?(?:%)?
IsPctOptional(t) == IsNumLoose(t) \/ IsPctLoose(t)

\* the group of a percentage field: the token without its % sign
PctDigits(t) == IF EndsPct(t) THEN ChopLast(t) ELSE t

\* \d{6,8}
IsHsnTok(t) == IsDigitStr(t) /\ Len(t) >= 6 /\ Len(t) <= 8

\* re.search(r'\b\d{6,8}\b', s)
HasHsnLike(s) ==
    \E i \in 1..Len(s) : \E n \in 6..8 :
        /\ i + n - 1 <= Len(s)
        /\ \A k \in i..(i + n - 1) : s[k] \in DigitChars
        /\ (i = 1 \/ ~IsWordChar(s[i - 1]))
        /\ (i + n - 1 = Len(s) \/ ~IsWordChar(s[i + n]))

\* re.sub(r'(?<!\d)\.(\d)\b', r'0.\1', s): ".5" becomes "0.5"
IsOrphanPoint(s, i) ==
    /\ s[i] = "."
    /\ (i = 1 \/ s[i - 1] \notin DigitChars)
    /\ i + 1 <= Len(s)
    /\ s[i + 1] \in DigitChars
    /\ (i + 2 > Len(s) \/ ~IsWordChar(s[i + 2]))

RECURSIVE FixOrphanIn(_, _, _)
FixOrphanIn(s, lo, hi) ==
    IF lo > hi THEN << >>
    ELSE IF lo = hi THEN (IF IsOrphanPoint(s, lo) THEN <<"0", ".">> ELSE <<s[lo]>>)
    ELSE FixOrphanIn(s, lo, (lo + hi) \div 2) \o FixOrphanIn(s, (lo + hi) \div 2 + 1, hi)

FixOrphanDecimal(s) == FixOrphanIn(s, 1, Len(s))

\* str.strip(' -')
RECURSIVE LStripSpHy(_)
LStripSpHy(s) ==
    IF s # << >> /\ Head(s) \in {" ", "-"} THEN LStripSpHy(Tail(s)) ELSE s

RECURSIVE RStripSpHy(_)
RStripSpHy(s) ==
    IF s # << >> /\ s[Len(s)] \in {" ", "-"} THEN RStripSpHy(ChopLast(s)) ELSE s

StripSpHy(s) == RStripSpHy(LStripSpHy(s))

(***************************************************************************)
(* The name clean-up of parse_item_row_text_all: three substitutions that  *)
(* join two neighbouring short words, repeated until nothing changes or    *)
(* five rounds have run.  A group of these patterns is a whole run of word *)
(* characters: the run ending the left token, the run starting the right.  *)
(***************************************************************************)
RECURSIVE LeadRun(_)
LeadRun(t) ==
    IF t # << >> /\ IsWordChar(Head(t)) THEN <<Head(t)>> \o LeadRun(Tail(t)) ELSE << >>

RECURSIVE TrailRun(_)
TrailRun(t) ==
    IF t # << >> /\ IsWordChar(t[Len(t)]) THEN TrailRun(ChopLast(t)) \o <<t[Len(t)]>> ELSE << >>

AllLetters(w) == \A i \in 1..Len(w) : IsLetter(w[i])

AllLower(w) == \A i \in 1..Len(w) : w[i] \in LowerChars

\* \b([A-Za-z]{1,2})\s+([a-z]{2,})\b
JoinA1(w) == AllLetters(w) /\ Len(w) >= 1 /\ Len(w) <= 2
JoinA2(w) == AllLower(w) /\ Len(w) >= 2

\* \b([A-Za-z]{1,3})\s+([a-z]{1,3})\b
JoinB1(w) == AllLetters(w) /\ Len(w) >= 1 /\ Len(w) <= 3
JoinB2(w) == AllLower(w) /\ Len(w) >= 1 /\ Len(w) <= 3

\* \b([a-z]{2,4})\s+([a-z]{2,4})\b
JoinC1(w) == AllLower(w) /\ Len(w) >= 2 /\ Len(w) <= 4
JoinC2(w) == AllLower(w) /\ Len(w) >= 2 /\ Len(w) <= 4

\* the two groups of the substitution named pat
JoinG1(pat, w) ==
    CASE pat = "A" -> JoinA1(w) [] pat = "B" -> JoinB1(w) [] pat = "C" -> JoinC1(w)

JoinG2(pat, w) ==
    CASE pat = "A" -> JoinA2(w) [] pat = "B" -> JoinB2(w) [] pat = "C" -> JoinC2(w)

\* one re.sub over the tokens: matches are found left to right and do not overlap
RECURSIVE JoinPass(_, _)
JoinPass(toks, pat) ==
    IF Len(toks) < 2 THEN toks
    ELSE IF JoinG1(pat, TrailRun(toks[1])) /\ JoinG2(pat, LeadRun(toks[2]))
    THEN IF LeadRun(toks[2]) = toks[2]
         THEN <<toks[1] \o toks[2]>> \o JoinPass(SubSeq(toks, 3, Len(toks)), pat)
         ELSE JoinPass(<<toks[1] \o toks[2]>> \o SubSeq(toks, 3, Len(toks)), pat)
    ELSE <<toks[1]>> \o JoinPass(Tail(toks), pat)

JoinRound(toks) == JoinPass(JoinPass(JoinPass(toks, "A"), "B"), "C")

\* for _ in range(5): ... if name2 == name: break
RECURSIVE JoinLoop(_, _)
RECURSIVE JoinAgain(_, _, _)
JoinAgain(toks, toks2, rounds) ==
    IF toks2 = toks THEN toks ELSE JoinLoop(toks2, rounds - 1)

JoinLoop(toks, rounds) ==
    IF rounds = 0 THEN toks ELSE JoinAgain(toks, JoinRound(toks), rounds)

\* name = re.sub(r'\s+', ' ', m.group('name')).strip(' -'), then for _ in range(5): ...
CleanName(nameToks) == JoinSp(JoinLoop(Tokens(StripSpHy(JoinSp(nameToks))), 5))

(***************************************************************************)
(* The three item grammars.  Each is a serial number, a name, and then a   *)
(* fixed run of numeric fields; the run is written as the sequence of the  *)
(* fields' shapes, from the tax code on.  A match is named by the          *)
(* positions i of its serial token and j of its tax-code token; the name   *)
(* is the tokens strictly between them.                                    *)
(***************************************************************************)
Shape(tag, tok) ==
    CASE tag = "hsn" -> IsHsnTok(tok)
      [] tag = "int" -> IsDigitStr(tok)
      [] tag = "money" -> IsMoneyLoose(tok)
      [] tag = "money2" -> IsMoneyStrict(tok)
      [] tag = "pct" -> IsPctLoose(tok)
      [] tag = "pctdot" -> IsPctStrict(tok)
      [] tag = "pctopt" -> IsPctOptional(tok)

\* row_pat of parse_item_row_text_all, from (?P<hsn>...) on
row_pat ==
    <<"hsn", "int", "money", "pct", "money", "pct", "pct", "money", "money",
      "pctopt", "money", "money">>

\* item_re of main, from (?P<hsn>...) on
item_re ==
    <<"hsn", "int", "money2", "pctdot", "money2", "pctdot", "pctdot", "money2", "money2",
      "money2", "money2">>

\* the pattern of Mode 2, from (?P<hsn>...) on
mode2_pat ==
    <<"hsn", "int", "money2", "pct", "money2", "pctdot", "pctdot", "money2", "money2",
      "pct", "money2", "money2">>

\* the pattern matches with its serial at token i and its tax code at token j
MatchAt(pat, t, i, j) ==
    /\ j >= i + 2
    /\ j + Len(pat) - 1 <= Len(t)
    /\ IsDigitStr(t[i])
    /\ \A k \in 1..Len(pat) : Shape(pat[k], t[j + k - 1])

\* the serial positions from token `from` on at which the pattern matches
MatchStarts(pat, t, from) ==
    {i \in from..Len(t) : \E j \in 1..Len(t) : MatchAt(pat, t, i, j)}

Least(S) == CHOOSE x \in S : \A y \in S : x <= y

\* the tax-code position of the match with serial i: .+? takes the shortest name
MatchJ(pat, t, i) == Least({j \in 1..Len(t) : MatchAt(pat, t, i, j)})

\* the numeric groups of a match, fnum applied: field k is the k-th after the tax code
Amounts(pat, t, j) == [k \in 1..(Len(pat) - 1) |-> fnum(Some(PctDigits(t[j + k])))]

(***************************************************************************)
(* parse_item_row_text_all: every match of row_pat in a row text.          *)
(***************************************************************************)

\* the dictionary built from one match of row_pat
RowPatFields(t, i, j, a) ==
    [sr |-> Some(DigitsVal(t[i])),
     name |-> CleanName(SubSeq(t, i + 1, j - 1)),
     hsn |-> Some(t[j]),
     qty |-> Some(DigitsVal(t[j + 1])),
     rate |-> a[2],
     discount_pct |-> a[3],
     taxable |-> a[4],
     cgst_pct |-> a[5],
     sgst_pct |-> a[6],
     cgst_amt |-> a[7],
     sgst_amt |-> a[8],
     cess_pct |-> a[9],
     cess_amt |-> a[10],
     total |-> a[11]]

RowPatItem(t, i, j) == RowPatFields(t, i, j, Amounts(row_pat, t, j))

\* re.finditer: the leftmost match from token `from` on, then on after its end
RECURSIVE RowPatAll(_, _)
RECURSIVE RowPatNext(_, _)
RECURSIVE RowPatFrom(_, _, _)
RowPatFrom(t, i, j) == <<RowPatItem(t, i, j)>> \o RowPatAll(t, j + Len(row_pat))

RowPatNext(t, starts) ==
    IF starts = {} THEN << >> ELSE RowPatFrom(t, Least(starts), MatchJ(row_pat, t, Least(starts)))

RowPatAll(t, from) == RowPatNext(t, MatchStarts(row_pat, t, from))

RowPatText(rt) ==
    IF rt = << >> THEN << >> ELSE RowPatAll(Tokens(FixOrphanDecimal(rt)), 1)

parse_item_row_text_all(row_text) == RowPatText(CollapseWs(Strip(row_text)))

(***************************************************************************)
(* parse_item_row_text: the single-match row parser with its two repairs.  *)
(* main() defines it and never calls it; it is modelled as a function of   *)
(* its own.                                                                *)
(***************************************************************************)
\* the bound of `item.get('total') < 5`, in hundredths
TotalThreshold == 500

\* (x or 0) == 0
IsZeroOrNone(x) == x = None \/ Val(x) = 0

\* if total is tiny, taxable is known and both tax amounts are zero: total = taxable
TotalRepair(it) ==
    IF /\ it.total # None
       /\ Val(it.total) < TotalThreshold
       /\ it.taxable # None
       /\ IsZeroOrNone(it.cgst_amt)
       /\ IsZeroOrNone(it.sgst_amt)
    THEN [it EXCEPT !.total = it.taxable]
    ELSE it

T_kinnaur == <<"k", "i", "n", "n", "a", "u", "r">>

T_apple_sp == <<"A", "p", "p", "l", "e", " ">>

T_sp_pcs == <<" ", "p", "c", "s">>

\* str.startswith
StartsWith(s, prefix) == Len(s) >= Len(prefix) /\ SubSeq(s, 1, Len(prefix)) = prefix

\* the rule firing wherever the name holds 'kinnaur'
NameRepairAnywhere(it) ==
    IF \E k \in 1..Len(it.name) : StartsWith(SubSeq(Lower(it.name), k, Len(it.name)), T_kinnaur)
    THEN [it EXCEPT !.name = T_apple_sp \o it.name \o T_sp_pcs]
    ELSE it

\* if nm.lower().startswith('kinnaur'): name = 'Apple ' + nm + ' pcs'
NameRepair(it) ==
    IF StartsWith(Lower(it.name), T_kinnaur)
    THEN [it EXCEPT !.name = T_apple_sp \o it.name \o T_sp_pcs]
    ELSE it

\* m = re.search(row_pat, row_text): the first match, as a list of 0 or 1 items
FirstMatch(found) == IF found = << >> THEN << >> ELSE <<found[1]>>

RowTextMatch(row_text) == FirstMatch(parse_item_row_text_all(row_text))

\* parse_item_row_text: None, or the item of the first match with both repairs
parse_item_row_text(row_text) ==
    IF RowTextMatch(row_text) = << >> THEN None
    ELSE Some(NameRepair(TotalRepair(RowTextMatch(row_text)[1])))

\* [p for p in parsed_many if p and p.get('name')]
RECURSIVE KeepNamed(_)
KeepNamed(parsed) ==
    IF parsed = << >> THEN << >>
    ELSE IF Head(parsed).name = << >> THEN KeepNamed(Tail(parsed))
    ELSE <<Head(parsed)>> \o KeepNamed(Tail(parsed))

(***************************************************************************)
(* table_extract_items_text: the text-aligned table path                   *)
(***************************************************************************)

\* re.sub(r'(?<=\d)\s+(?=\d)', '', s): whitespace between two digits is removed
RECURSIVE JoinDigitsIn(_, _, _)
JoinDigitsIn(s, lo, hi) ==
    IF lo > hi THEN << >>
    ELSE IF lo = hi
    THEN (IF IsWs(s[lo]) /\ lo > 1 /\ lo < Len(s)
             /\ s[lo - 1] \in DigitChars /\ s[lo + 1] \in DigitChars
          THEN << >> ELSE <<s[lo]>>)
    ELSE JoinDigitsIn(s, lo, (lo + hi) \div 2) \o JoinDigitsIn(s, (lo + hi) \div 2 + 1, hi)

\* s holds single spaces only, so a whitespace run between digits is one space
JoinDigits(s) == JoinDigitsIn(s, 1, Len(s))

\* the clean-up of one cell of a text-table row
TextCell(c) == FixOrphanDecimal(JoinDigits(CollapseWs(Strip(CellStr(c)))))

\* cells = [c for c in cells if c]
RECURSIVE NonEmpty(_)
NonEmpty(cells) ==
    IF cells = << >> THEN << >>
    ELSE IF Head(cells) = << >> THEN NonEmpty(Tail(cells))
    ELSE <<Head(cells)>> \o NonEmpty(Tail(cells))

TextCells(row) == NonEmpty([k \in 1..Len(row) |-> TextCell(row[k])])

HsnLen == 8

\* cells i and i+1 are a tax code short of HsnLen digits and a short digit run
IsSplitHsn(a, b) ==
    /\ IsDigitStr(a) /\ 6 <= Len(a) /\ Len(a) < HsnLen
    /\ IsDigitStr(b) /\ 1 <= Len(b) /\ Len(b) <= 3
    /\ HsnLen - Len(a) <= Len(b)

\* The digits copied to the end of cell i and left in place in cell i+1: what
\* C27_SplitRepairEndsKeepingText rules out.
MoveDigitsCopying(cells, i, need) ==
    [cells EXCEPT ![i] = cells[i] \o SubSeq(cells[i + 1], 1, need)]

\* cells[i] = a + b[:need]; cells[i+1] = b[need:]
MoveDigits(cells, i, need) ==
    [cells EXCEPT ![i] = cells[i] \o SubSeq(cells[i + 1], 1, need),
                  ![i + 1] = SubSeq(cells[i + 1], need + 1, Len(cells[i + 1]))]

\* the while loop that repairs a tax code split over two numeric cells; i is 1-based
RECURSIVE RepairSplit(_, _)
RECURSIVE RepairMoved(_, _)
RepairMoved(moved, i) ==
    IF moved[i + 1] = << >>
    THEN RepairSplit(SubSeq(moved, 1, i) \o SubSeq(moved, i + 2, Len(moved)), i)
    ELSE RepairSplit(moved, i + 1)

RepairSplit(cells, i) ==
    IF i >= Len(cells) THEN cells
    ELSE IF IsSplitHsn(cells[i], cells[i + 1])
    THEN RepairMoved(MoveDigits(cells, i, HsnLen - Len(cells[i])), i)
    ELSE RepairSplit(cells, i + 1)

\* row_text = ' '.join(cells) of one row
TextRowText(row) == JoinSp(RepairSplit(TextCells(row), 1))

IsTotalsText(low) == Contains(low, T_item_total) \/ Contains(low, T_invoice_value)

\* `for row in tb[1:]` from row r on: stops at a totals row
RECURSIVE TextRowsFrom(_, _)
RECURSIVE TextRowsText(_, _, _)
TextRowsText(tb, r, row_text) ==
    IF row_text = << >> THEN TextRowsFrom(tb, r + 1)
    ELSE IF IsTotalsText(Lower(row_text)) THEN << >>
    ELSE IF ~HasHsnLike(row_text) THEN TextRowsFrom(tb, r + 1)
    ELSE KeepNamed(parse_item_row_text_all(row_text)) \o TextRowsFrom(tb, r + 1)

TextRowsFrom(tb, r) ==
    IF r > Len(tb) THEN << >> ELSE TextRowsText(tb, r, TextRowText(tb[r]))

\* header_cells: the stripped, whitespace-collapsed cells of the header row, non-empty
HeaderCell(c) == CollapseWs(Strip(CellStr(c)))

NonEmptyCells(row) == NonEmpty([k \in 1..Len(row) |-> HeaderCell(row[k])])

\* an item row may have landed in the header row
HeaderTextItems(header_text) ==
    IF header_text # << >> /\ HasHsnLike(header_text)
    THEN KeepNamed(parse_item_row_text_all(header_text))
    ELSE << >>

TextHeaderItems(tb) == HeaderTextItems(JoinSp(NonEmptyCells(tb[1])))

\* the body of `for page in pages` from `tb = tbs[0]` on
TextTable(tb) ==
    IF tb = << >> THEN Result(TRUE, << >>)
    ELSE Result(FALSE, TextHeaderItems(tb) \o TextRowsFrom(tb, 2))

(***************************************************************************)
(* The line-pattern path: the classifiers of the lines around an item line *)
(***************************************************************************)
\* the column labels of is_noise_line
NoiseLabels ==
    {<<"s", "r">>,
     <<"n", "o">>,
     <<"h", "s", "n">>,
     <<"q", "t", "y">>,
     <<"r", "a", "t", "e">>,
     <<"d", "i", "s", "c", ".">>,
     <<"t", "a", "x", "a", "b", "l", "e">>,
     <<"a", "m", "t", ".">>,
     <<"c", "g", "s", "t">>,
     <<"s", "/", "u", "t">>,
     <<"g", "s", "t">>,
     <<"c", "e", "s", "s">>,
     <<"t", "o", "t", "a", "l">>,
     <<"s", "r", " ", "n", "o">>,
     <<"i", "t", "e", "m", " ", "&", " ", "d", "e", "s", "c", "r", "i", "p", "t", "i", "o", "n">>,
     <<"p", "r", "o", "d", "u", "c", "t", " ", "r", "a", "t", "e">>,
     <<"t", "a", "x", "a", "b", "l", "e", " ", "a", "m", "t", ".">>,
     <<"t", "o", "t", "a", "l", " ", "a", "m", "t", ".">>}

\* looks_like_header_or_address: 'bengaluru' in low or ...
PlaceWords ==
    {<<"b", "e", "n", "g", "a", "l", "u", "r", "u">>,
     <<"k", "a", "r", "n", "a", "t", "a", "k", "a">>,
     <<"i", "n", "d", "i", "a">>}

\* looks_like_header_or_address: the second list
PartyWords ==
    {<<"b", "i", "l", "l", " ", "t", "o">>,
     <<"s", "h", "i", "p", " ", "t", "o">>,
     <<"i", "n", "v", "o", "i", "c", "e">>,
     <<"g", "s", "t", "i", "n">>,
     <<"f", "s", "s", "a", "i">>,
     <<"p", "l", "a", "c", "e", " ", "o", "f", " ", "s", "u", "p", "p", "l", "y">>}

\* looks_like_header_or_address: the third list
ColumnWords ==
    {<<"s", "r", " ", "i", "t", "e", "m">>,
     <<"h", "s", "n">>,
     <<"t", "a", "x", "a", "b", "l", "e">>,
     <<"c", "g", "s", "t">>,
     <<"s", "/", "u", "t">>,
     <<"c", "e", "s", "s">>,
     <<"t", "o", "t", "a", "l", " ", "a", "m", "t">>,
     <<"n", "o", " ", "d", "e", "s", "c", "r", "i", "p", "t", "i", "o", "n">>,
     <<"p", "r", "o", "d", "u", "c", "t", " ", "r", "a", "t", "e">>}

\* alpha_line: addr_bad
addr_bad ==
    {<<"l", "a", "y", "o", "u", "t">>,
     <<"r", "o", "a", "d">>,
     <<"r", "d">>,
     <<"c", "o", "m", "p", "o", "u", "n", "d">>,
     <<"p", "u", "r", "a">>,
     <<"a", "e", "c", "s">>,
     <<"m", "u", "n", "n", "e", "k", "o", "l", "l", "a", "l">>,
     <<"b", "e", "n", "g", "a", "l", "u", "r", "u">>,
     <<"k", "a", "r", "n", "a", "t", "a", "k", "a">>,
     <<"i", "n", "d", "i", "a">>,
     <<"p", "i", "n">>,
     <<"g", "s", "t", "i", "n">>,
     <<"f", "s", "s", "a", "i">>,
     <<"g", "e", "d", "d", "i", "t">>,
     <<"c", "o", "n", "v", "e", "n", "i", "e", "n", "c", "e">>,
     <<"p", "r", "i", "v", "a", "t", "e", " ", "l", "i", "m", "i", "t", "e", "d">>,
     <<"v", "y", "o", "m">>,
     <<"c", "h", "o", "p", "r", "a">>}

\* packish_line: the sizing tokens
PackWords ==
    {<<"p", "a", "c", "k">>,
     <<"p", "c", "s">>,
     <<"p", "c">>,
     <<"k", "g">>,
     <<"g", ")">>,
     <<"m", "l">>,
     <<"l", ")">>,
     <<"(", "2", "0", "0">>,
     <<"(", "5", "0", "0">>,
     <<"(">>}

\* the markers that end the downward walk
TotalsWords ==
    {<<"i", "t", "e", "m", " ", "t", "o", "t", "a", "l">>,
     <<"i", "n", "v", "o", "i", "c", "e", " ", "v", "a", "l", "u", "e">>,
     <<"h", "a", "n", "d", "l", "i", "n", "g", " ", "f", "e", "e">>}

ContainsAny(s, subs) == \E w \in subs : Contains(s, w)

\* \s*\d+\.\d{2} to the end of the string
IsSpacedMoney(body) == IsMoneyStrict(Strip(body)) /\ ~IsWs(body[Len(body)])

\* [\+\-]?\s*\d+\.\d{2} as a whole string
IsSignedMoney(s) ==
    /\ s # << >>
    /\ IsSpacedMoney(IF s[1] \in {"+", "-"} THEN Tail(s) ELSE s)

\* \+\s*\d+\.\d{2} as a whole string
IsPlusMoney(s) == s # << >> /\ s[1] = "+" /\ IsSpacedMoney(Tail(s))

\* is_noise_line after s = (s or '').strip()
IsNoise(s) ==
    \/ s = << >>
    \/ IsPctOptional(s)
    \/ IsSignedMoney(s)
    \/ IsPlusMoney(s)
    \/ Lower(s) \in NoiseLabels

is_noise_line(s0) == IsNoise(Strip(s0))

\* looks_like_header_or_address after low = s.lower()
IsHeaderOrAddress(s, low) ==
    \/ s = << >>
    \/ ContainsAny(low, PlaceWords \cup PartyWords \cup ColumnWords)
    \/ Contains(s, <<":">>)

HeaderOrAddress(s) == IsHeaderOrAddress(s, Lower(s))

looks_like_header_or_address(s0) == HeaderOrAddress(Strip(s0))

MaxFragmentLen == 40

HasLetter(s) == \E i \in 1..Len(s) : IsLetter(s[i])

HasDigit(s) == \E i \in 1..Len(s) : s[i] \in DigitChars

\* alpha_line after s = (s or '').strip()
IsAlpha(s) ==
    /\ s # << >>
    /\ HasLetter(s)
    /\ ~HasDigit(s)
    /\ ~ContainsAny(Lower(s), addr_bad)
    /\ Len(s) <= MaxFragmentLen

alpha_line(s0) == IsAlpha(Strip(s0))

\* packish_line after s = (s or '').strip().lower()
IsPackish(s) == s # << >> /\ ContainsAny(s, PackWords)

packish_line(s0) == IsPackish(Lower(Strip(s0)))

(***************************************************************************)
(* Mode 1 of main: one item per line matching item_re, its name completed  *)
(* from the lines above and below.  Line positions are 1-based here.       *)
(***************************************************************************)
LineTokens(ln) == Tokens(CollapseWs(Strip(ln)))

\* item_re.search(ln) is not None
ItemReMatches(ln) == MatchStarts(item_re, LineTokens(ln), 1) # {}

\* re.fullmatch(r'SR', ln.strip(), flags=re.IGNORECASE)
IsSrLine(ln) == Lower(Strip(ln)) = T_sr

\* items_section_start: the first line that is exactly SR, else the first line
SectionStart(srs) == IF srs = {} THEN 1 ELSE Least(srs)

ItemsSectionStart(lns) == SectionStart({i \in 1..Len(lns) : IsSrLine(lns[i])})

MaxPrefix == 4

MaxSuffix == 3

\* what the upward walk does with the stripped line t: stop, take it or pass over it
PrefixVerdict(t) ==
    IF t = << >> THEN "pass"
    ELSE IF packish_line(t) THEN "stop"
    ELSE IF looks_like_header_or_address(t) \/ is_noise_line(t) THEN "pass"
    ELSE IF alpha_line(t) THEN "take"
    ELSE "pass"

\* the upward walk from line j: the fragments in the order they are met
RECURSIVE PrefixWalk(_, _, _, _)
RECURSIVE PrefixStep(_, _, _, _, _, _)
PrefixStep(lns, j, start, prefix, t, verdict) ==
    IF verdict = "stop" THEN prefix
    ELSE PrefixWalk(lns, j - 1, start, IF verdict = "take" THEN Append(prefix, t) ELSE prefix)

PrefixWalk(lns, j, start, prefix) ==
    IF ~(j >= start /\ Len(prefix) < MaxPrefix) THEN prefix
    ELSE PrefixStep(lns, j, start, prefix, Strip(lns[j]), PrefixVerdict(Strip(lns[j])))

\* list(reversed(xs))
Reverse(xs) == [i \in 1..Len(xs) |-> xs[Len(xs) + 1 - i]]

\* re.fullmatch(r'\+\s*\d+\.\d{2}', t) or re.fullmatch(r'\d+\.\d{2}%?', t)
IsAmountLine(t) ==
    IsPlusMoney(t) \/ IsMoneyStrict(IF EndsPct(t) THEN ChopLast(t) ELSE t)

\* A downward walk that takes every line it neither stops at nor skips as an
\* amount, pack-size fragment or not: what C14_NumbersAreNoise rules out.
SuffixVerdictTakingAll(t) ==
    IF t = << >> THEN "pass"
    ELSE IF ItemReMatches(t) THEN "stop"
    ELSE IF ContainsAny(Lower(t), TotalsWords) THEN "stop"
    ELSE IF looks_like_header_or_address(t) THEN "stop"
    ELSE IF IsAmountLine(t) THEN "pass"
    ELSE "take"

\* what the downward walk does with the stripped line t
SuffixVerdict(t) ==
    IF t = << >> THEN "pass"
    ELSE IF ItemReMatches(t) THEN "stop"
    ELSE IF ContainsAny(Lower(t), TotalsWords) THEN "stop"
    ELSE IF looks_like_header_or_address(t) THEN "stop"
    ELSE IF IsAmountLine(t) THEN "pass"
    ELSE IF packish_line(t) THEN "take"
    ELSE "pass"

\* the downward walk from line k
RECURSIVE SuffixWalk(_, _, _)
RECURSIVE SuffixStep(_, _, _, _, _)
SuffixStep(lns, k, suffix, t, verdict) ==
    IF verdict = "stop" THEN suffix
    ELSE SuffixWalk(lns, k + 1, IF verdict = "take" THEN Append(suffix, t) ELSE suffix)

SuffixWalk(lns, k, suffix) ==
    IF ~(k <= Len(lns) /\ Len(suffix) < MaxSuffix) THEN suffix
    ELSE SuffixStep(lns, k, suffix, Strip(lns[k]), SuffixVerdict(Strip(lns[k])))

\* A name whose upward fragments stay in the order the walk met them, nearest line
\* first: what C15_NameInDocumentOrder rules out.
Mode1NameAsWalked(lns, idx, base_name) ==
    StripSpHy(CollapseWs(JoinSp(
        PrefixWalk(lns, idx - 1, ItemsSectionStart(lns), << >>)
        \o <<base_name>>
        \o SuffixWalk(lns, idx + 1, << >>))))

\* full_name of the item matched on line idx
Mode1Name(lns, idx, base_name) ==
    StripSpHy(CollapseWs(JoinSp(
        Reverse(PrefixWalk(lns, idx - 1, ItemsSectionStart(lns), << >>))
        \o <<base_name>>
        \o SuffixWalk(lns, idx + 1, << >>))))

\* the dictionary Mode 1 appends
Mode1Fields(t, i, j, a, full_name) ==
    [sr |-> Some(DigitsVal(t[i])),
     name |-> full_name,
     hsn |-> Some(t[j]),
     qty |-> Some(DigitsVal(t[j + 1])),
     rate |-> a[2],
     discount_pct |-> a[3],
     taxable |-> a[4],
     cgst_pct |-> a[5],
     sgst_pct |-> a[6],
     cgst_amt |-> a[7],
     sgst_amt |-> a[8],
     cess_pct |-> None,
     cess_amt |-> a[9],
     total |-> a[10]]

\* from `if not re.search(r'[A-Za-z]', m.group('name')): continue` on
Mode1Named(lns, idx, t, i, j, rawname) ==
    IF ~HasLetter(rawname) THEN << >>
    ELSE <<Mode1Fields(t, i, j, Amounts(item_re, t, j), Mode1Name(lns, idx, StripSpHy(rawname)))>>

Mode1Match(lns, idx, t, i, j) == Mode1Named(lns, idx, t, i, j, JoinSp(SubSeq(t, i + 1, j - 1)))

Mode1Serial(lns, idx, t, i) == Mode1Match(lns, idx, t, i, MatchJ(item_re, t, i))

Mode1Starts(lns, idx, t, starts) ==
    IF starts = {} THEN << >> ELSE Mode1Serial(lns, idx, t, Least(starts))

Mode1Tokens(lns, idx, t) == Mode1Starts(lns, idx, t, MatchStarts(item_re, t, 1))

\* one iteration of the Mode 1 loop, for line idx: a list of 0 or 1 items
Mode1Line(lns, idx) ==
    IF idx < ItemsSectionStart(lns) THEN << >>
    ELSE Mode1Tokens(lns, idx, LineTokens(lns[idx]))

(***************************************************************************)
(* Mode 2 of main: the order-flexible grammar, tried on each line and on   *)
(* the line joined with the next one, until one item is found.             *)
(***************************************************************************)

\* the dictionary Mode 2 appends
Mode2Fields(t, i, j, a) ==
    [sr |-> Some(DigitsVal(t[i])),
     name |-> JoinSp(SubSeq(t, 1, i - 1) \o SubSeq(t, i + 1, j - 1)),
     hsn |-> Some(t[j]),
     qty |-> Some(DigitsVal(t[j + 1])),
     rate |-> None,
     discount_pct |-> a[3],
     taxable |-> a[4],
     cgst_pct |-> a[5],
     sgst_pct |-> a[6],
     cgst_amt |-> a[7],
     sgst_amt |-> a[8],
     cess_pct |-> a[9],
     cess_amt |-> a[10],
     total |-> a[11]]

Mode2Match(t, i, j) == Mode2Fields(t, i, j, Amounts(mode2_pat, t, j))

Mode2Serial(t, i) == Mode2Match(t, i, MatchJ(mode2_pat, t, i))

\* re.search on one candidate text: the name before the serial is not empty, and .+?
\* takes the shortest name, then the shortest second description
Mode2Starts(starts, t) == IF starts = {} THEN << >> ELSE <<Mode2Serial(t, Least(starts))>>

Mode2Cand(t) == Mode2Starts(MatchStarts(mode2_pat, t, 2), t)

\* candidates = [ln] and, when a line follows, (ln + ' ' + next).strip()
Mode2Cands(lns, k) ==
    IF k + 1 <= Len(lns) THEN <<lns[k], lns[k] \o <<" ">> \o lns[k + 1]>> ELSE <<lns[k]>>

\* for cand in candidates: the first candidate that matches
RECURSIVE Mode2Try(_)
RECURSIVE Mode2Tried(_, _)
Mode2Tried(found, cands) == IF found # << >> THEN found ELSE Mode2Try(Tail(cands))

Mode2Try(cands) ==
    IF cands = << >> THEN << >> ELSE Mode2Tried(Mode2Cand(LineTokens(Head(cands))), cands)

\* the scan of lines[items_section_start:] from line k on: a list of 0 or 1 items
RECURSIVE Mode2From(_, _)
RECURSIVE Mode2Found(_, _, _)
Mode2Found(lns, k, found) == IF found # << >> THEN found ELSE Mode2From(lns, k + 1)

Mode2From(lns, k) ==
    IF k > Len(lns) THEN << >>
    ELSE IF IsTotalsText(Lower(lns[k])) THEN << >>
    ELSE Mode2Found(lns, k, Mode2Try(Mode2Cands(lns, k)))

(***************************************************************************)
(* The merge of the text-table candidates into the grid-table candidates   *)
(***************************************************************************)

\* str(v or '') for v None or Some(string)
StrOrEmptyS(v) == IF v = None THEN << >> ELSE Val(v)

\* str(v or '') for v None or Some(integer): 0 is falsy
StrOrEmptyI(v) == IF v = None \/ v = Some(0) THEN << >> ELSE IntStr(Val(v))

\* str(v or '') for v None or Some(float): 0.0 is falsy
StrOrEmptyF(v) == IF v = None \/ v = Some(0) THEN << >> ELSE FloatStr(Val(v))

\* key(it)
key(it) == <<StrOrEmptyS(it.hsn), StrOrEmptyI(it.qty), StrOrEmptyF(it.total), Lower(it.name)>>

KeysOf(list) == {key(list[i]) : i \in 1..Len(list)}

\* A merge in which a text-table candidate with a seen key takes the place of the
\* record holding that key: what C2_EarliestPathKept rules out.
RECURSIVE MergeFromOverwriting(_, _, _)
MergeFromOverwriting(list, seen, extra) ==
    IF extra = << >> THEN list
    ELSE IF key(Head(extra)) \in seen
    THEN MergeFromOverwriting(
             [p \in 1..Len(list) |->
                 IF key(list[p]) = key(Head(extra)) THEN Head(extra) ELSE list[p]],
             seen, Tail(extra))
    ELSE MergeFromOverwriting(Append(list, Head(extra)), seen \cup {key(Head(extra))},
                              Tail(extra))

\* A merge that puts an unseen candidate in front of the list instead of at its end:
\* what C3_FirstAppearanceOrder rules out.
RECURSIVE MergeFromInFront(_, _, _)
MergeFromInFront(list, seen, extra) ==
    IF extra = << >> THEN list
    ELSE IF key(Head(extra)) \in seen THEN MergeFromInFront(list, seen, Tail(extra))
    ELSE MergeFromInFront(<<Head(extra)>> \o list, seen \cup {key(Head(extra))}, Tail(extra))

\* A merge that never looks at seen: what C4_MergeIdempotent rules out.
RECURSIVE MergeFromUnchecked(_, _, _)
MergeFromUnchecked(list, seen, extra) ==
    IF extra = << >> THEN list
    ELSE MergeFromUnchecked(Append(list, Head(extra)), seen, Tail(extra))

\* for it in extra_items: append it unless its key is in seen
RECURSIVE MergeFrom(_, _, _)
MergeFrom(list, seen, extra) ==
    IF extra = << >> THEN list
    ELSE IF key(Head(extra)) \in seen THEN MergeFrom(list, seen, Tail(extra))
    ELSE MergeFrom(Append(list, Head(extra)), seen \cup {key(Head(extra))}, Tail(extra))

\* if extra_items: ... (the whole merge)
MergeExtra(list, extra) ==
    IF extra = << >> THEN list ELSE MergeFrom(list, KeysOf(list), extra)

(***************************************************************************)
(* The two table paths and the line path of parse_zepto_invoice.py as      *)
(* functions of the whole document.                                        *)
(***************************************************************************)
HeaderTopAt(words, srs) == IF srs = {} THEN None ELSE Some(words[Least(srs)].top)

\* header_top: the top of the first word that is 'sr', None without one
HeaderTop(words) == HeaderTopAt(words, {i \in 1..Len(words) : Lower(words[i].text) = T_sr})

\* A page loop in which a page without header anchor ends the extraction (an
\* exception instead of `continue`): what C7_NoHeaderPageLocal rules out.
GridPageAborting(page) ==
    IF HeaderTop(page.words) = None THEN Result(TRUE, << >>)
    ELSE IF page.grid = << >> THEN Result(FALSE, << >>)
    ELSE GridTable(page.grid[1])

\* one iteration of `for page in pages` of table_extract_items
GridPageResult(page) ==
    IF HeaderTop(page.words) = None THEN Result(FALSE, << >>)
    ELSE IF page.grid = << >> THEN Result(FALSE, << >>)
    ELSE GridTable(page.grid[1])

\* one iteration of `for page in pages` of table_extract_items_text
TextPageResult(page) ==
    IF HeaderTop(page.words) = None THEN Result(FALSE, << >>)
    ELSE IF page.text = << >> THEN Result(FALSE, << >>)
    ELSE TextTable(page.text[1])

\* table_extract_items() on the pages from p on: the list it returns, raised when it does not return
RECURSIVE GridPagesFrom(_, _)
RECURSIVE GridPagesAfter(_, _, _)
GridPagesAfter(pgs, p, one) ==
    IF one.raised THEN one ELSE ThenRows(one, GridPagesFrom(pgs, p + 1))

GridPagesFrom(pgs, p) ==
    IF p > Len(pgs) THEN Result(FALSE, << >>)
    ELSE GridPagesAfter(pgs, p, GridPageResult(pgs[p]))

table_extract_items(pgs) == GridPagesFrom(pgs, 1)

\* table_extract_items_text() on the pages from p on
RECURSIVE TextPagesFrom(_, _)
RECURSIVE TextPagesAfter(_, _, _)
TextPagesAfter(pgs, p, one) ==
    IF one.raised THEN one ELSE ThenRows(one, TextPagesFrom(pgs, p + 1))

TextPagesFrom(pgs, p) ==
    IF p > Len(pgs) THEN Result(FALSE, << >>)
    ELSE TextPagesAfter(pgs, p, TextPageResult(pgs[p]))

table_extract_items_text(pgs) == TextPagesFrom(pgs, 1)

\* the items the Mode 1 loop appends from line i on
RECURSIVE Mode1From(_, _)
Mode1From(lns, i) ==
    IF i > Len(lns) THEN << >> ELSE Mode1Line(lns, i) \o Mode1From(lns, i + 1)

\* the items Mode 1 and Mode 2 append to a list `before`
LineItemsAfter(lns, before, mode1) ==
    IF before \o mode1 = << >> THEN Mode2From(lns, ItemsSectionStart(lns)) ELSE mode1

LineItems(lns, before) == LineItemsAfter(lns, before, Mode1From(lns, 1))

(***************************************************************************)
(* parse_blinkit_invoice.py: one invoice per page that holds an item table *)
(***************************************************************************)
T_no == <<"n", "o">>

T_grand_total == <<"g", "r", "a", "n", "d", " ", "t", "o", "t", "a", "l">>

T_discount == <<"d", "i", "s", "c", "o", "u", "n", "t">>

T_mrp == <<"m", "r", "p">>

\* A norm_money that leaves the commas in: what C21_SeparatorStyleIndependent rules out.
norm_money_keeping_commas(s) ==
    IF s = None THEN None
    ELSE ParseFloat(Strip(Val(s)))

\* norm_money(s): s is None or Some(string)
norm_money(s) ==
    IF s = None THEN None
    ELSE ParseFloat(Strip(RemoveChar(Val(s), ",")))

\* norm_money of parse_swiggy_invoice.py and parse_zomato_invoice.py
norm_money_str(s) ==
    IF s = None THEN None
    ELSE ParseFloat(Strip(RemoveChar(Val(s), ",")))

\* the rupee sign, one character of a text, and the three characters that
\* parse_eatclub_invoice.py removes in its place
Rupee == "Rs"

T_rupee == <<Rupee>>

T_rupee_misread == <<"a^", "'", "1^">>

\* str.replace(sub, '') for a text sub
RECURSIVE RemoveSub(_, _)
RemoveSub(s, sub) ==
    IF Len(s) < Len(sub) THEN s
    ELSE IF SubSeq(s, 1, Len(sub)) = sub THEN RemoveSub(SubSeq(s, Len(sub) + 1, Len(s)), sub)
    ELSE <<s[1]>> \o RemoveSub(Tail(s), sub)

\* the end of the run of digits of s that starts at position i
RECURSIVE DigitRunEnd(_, _)
DigitRunEnd(s, i) ==
    IF i + 1 <= Len(s) /\ s[i + 1] \in DigitChars THEN DigitRunEnd(s, i + 1) ELSE i

\* (?:\.[0-9]{1,2})? after position e: the one or two digits taken, none without point
FracAfter(s, e) ==
    IF e + 2 <= Len(s) /\ s[e + 1] = "." /\ s[e + 2] \in DigitChars
    THEN (IF e + 3 <= Len(s) /\ s[e + 3] \in DigitChars
          THEN SubSeq(s, e + 2, e + 3) ELSE SubSeq(s, e + 2, e + 2))
    ELSE << >>

\* float(m.group(1)) for the match that starts at i and whose digits end at e
MoneyMatch(s, i, e) == Some(100 * DigitsVal(SubSeq(s, i, e)) + FracVal(FracAfter(s, e)))

MoneyFrom(s, starts) ==
    IF starts = {} THEN None ELSE MoneyMatch(s, Least(starts), DigitRunEnd(s, Least(starts)))

\* re.search(r'([0-9]+(?:\.[0-9]{1,2})?)', s) and float() of its group
SearchMoney(s) == MoneyFrom(s, {i \in 1..Len(s) : s[i] \in DigitChars})

\* norm_money of parse_redbus_invoice.py, parse_district_invoice.py and
\* parse_eatclub_invoice.py, which differ in the currency text they remove
norm_money_search(s, currency) ==
    IF s = None THEN None
    ELSE SearchMoney(Strip(RemoveChar(RemoveSub(Val(s), currency), ",")))

\* text = '\n'.join(...) of parse_zepto_invoice.py: the document's lines, one per line
RECURSIVE JoinLines(_)
JoinLines(ls) ==
    IF ls = << >> THEN << >>
    ELSE IF Len(ls) = 1 THEN ls[1]
    ELSE ls[1] \o <<"\n">> \o JoinLines(Tail(ls))

\* \s* from position i: the first position that holds no white space
RECURSIVE WsEnd(_, _)
WsEnd(s, i) == IF i <= Len(s) /\ IsWs(s[i]) THEN WsEnd(s, i + 1) ELSE i

\* the word w, in any case, at position i (re.IGNORECASE)
WordAt(s, i, w) == i + Len(w) - 1 <= Len(s) /\ Lower(SubSeq(s, i, i + Len(w) - 1)) = w

WordCharAt(s, i) == i >= 1 /\ i <= Len(s) /\ IsWordChar(s[i])

\* \b before position i
BoundaryAt(s, i) == WordCharAt(s, i - 1) # WordCharAt(s, i)

\* the text of the group ([0-9]+(?:\.[0-9]{1,2})?) matched at i, whose digits end at e
MoneyGroup(s, i, e) ==
    SubSeq(s, i, IF FracAfter(s, e) = << >> THEN e ELSE e + 1 + Len(FracAfter(s, e)))

\* \s*([0-9]+(?:\.[0-9]{1,2})?) from position n, the white space already skipped
MoneyAt(s, n) ==
    IF n <= Len(s) /\ s[n] \in DigitChars THEN Some(MoneyGroup(s, n, DigitRunEnd(s, n)))
    ELSE None

\* \s+w2\b\s*money after the first word, which ends before position j
SecondWordMoney(s, j, k, w2) ==
    IF k > j /\ WordAt(s, k, w2) /\ BoundaryAt(s, k + Len(w2))
    THEN MoneyAt(s, WsEnd(s, k + Len(w2)))
    ELSE None

\* the match of \bw1\s+w2\b\s*money that starts at position i, None where it does not match
LabelMatchAt(s, i, w1, w2) ==
    IF BoundaryAt(s, i) /\ WordAt(s, i, w1)
    THEN SecondWordMoney(s, i + Len(w1), WsEnd(s, i + Len(w1)), w2)
    ELSE None

FirstLabelMatch(s, starts, w1, w2) ==
    IF starts = {} THEN None ELSE LabelMatchAt(s, Least(starts), w1, w2)

\* extract_first([rf'\b<w1>\s+<w2>\b\s*{money}'], text, flags=re.IGNORECASE)
LabelledMoney(s, w1, w2) ==
    FirstLabelMatch(s, {i \in 1..Len(s) : LabelMatchAt(s, i, w1, w2) # None}, w1, w2)

W_item == <<"i", "t", "e", "m">>
W_total == <<"t", "o", "t", "a", "l">>
W_invoice == <<"i", "n", "v", "o", "i", "c", "e">>
W_value == <<"v", "a", "l", "u", "e">>
W_handling == <<"h", "a", "n", "d", "l", "i", "n", "g">>
W_fee == <<"f", "e", "e">>

\* item_total = fnum(extract_first([rf'\bItem\s+Total\b\s*{money}'], text, ...))
item_total_of(text) == LabelledMoney(text, W_item, W_total)

\* invoice_value = fnum(extract_first([rf'\bInvoice\s+Value\b\s*{money}'], text, ...))
invoice_value_of(text) == LabelledMoney(text, W_invoice, W_value)

\* [^\n]*?\s{money} from position m: the first white space before a digit that is
\* reached without passing a line break
RECURSIVE LazyMoney(_, _)
LazyMoney(s, m) ==
    IF m > Len(s) THEN None
    ELSE IF IsWs(s[m]) /\ MoneyAt(s, m + 1) # None THEN MoneyAt(s, m + 1)
    ELSE IF s[m] = "\n" THEN None
    ELSE LazyMoney(s, m + 1)

FeeAfter(s, j, k) ==
    IF k > j /\ WordAt(s, k, W_fee) THEN LazyMoney(s, k + Len(W_fee)) ELSE None

\* the match of Handling\s+Fee[^\n]*?\s{money} that starts at position i
FeeMatchAt(s, i) ==
    IF WordAt(s, i, W_handling)
    THEN FeeAfter(s, i + Len(W_handling), WsEnd(s, i + Len(W_handling)))
    ELSE None

FirstFeeMatch(s, starts) == IF starts = {} THEN None ELSE FeeMatchAt(s, Least(starts))

\* handling_fee = fnum(extract_first([rf'Handling\s+Fee[^\n]*?\s{money}'], text, ...))
handling_fee_of(text) == FirstFeeMatch(text, {i \in 1..Len(text) : FeeMatchAt(text, i) # None})

\* out = {...} of parse_zepto_invoice.py: the keys that carry money or items
ZeptoOut(text, its) ==
    [merchant |-> "ZEPTO",
     item_total |-> fnum(item_total_of(text)),
     handling_fee |-> fnum(handling_fee_of(text)),
     invoice_value |-> fnum(invoice_value_of(text)),
     items |-> its]

(***************************************************************************)
(* parse_eatclub_invoice.py: the scan of the text lines for the items of   *)
(* the Product Details table.                                              *)
(***************************************************************************)
T_sac == <<"s", "a", "c">>

T_product_details ==
    <<"p", "r", "o", "d", "u", "c", "t", " ", "d", "e", "t", "a", "i", "l", "s">>

T_description_header ==
    <<"d", "e", "s", "c", "r", "i", "p", "t", "i", "o", "n", " ", "q", "t", "y", " ", "r", "a",
      "t", "e", " ", "a", "m", "o", "u", "n", "t">>

T_sub_total == <<"s", "u", "b", " ", "t", "o", "t", "a", "l">>

T_subtotal == <<"s", "u", "b", "t", "o", "t", "a", "l">>

T_pc == <<"p", "c">>

\* ln = re.sub(r'\s+', ' ', line).strip()
ScanLine(line) == Strip(CollapseWs(line))

\* re.search(r'^Product\s+Details$', ln, flags=re.I)
IsProductDetails(ln) == Lower(ln) = T_product_details

\* \s*: after the label of length n
ColonAfter(ln, n) == WsEnd(ln, n + 1) <= Len(ln) /\ ln[WsEnd(ln, n + 1)] = ":"

\* The end of the table seen only in a line that is the bare label, without the colon
\* and the amount after it: what C28_ItemsOnlyFromTableWindow rules out.
IsSubTotalBare(ln) == Lower(ln) \in {T_sub_total, T_subtotal}

\* re.search(r'^Sub\s*Total\s*:', ln, flags=re.I)
IsSubTotal(ln) ==
    \/ StartsWith(Lower(ln), T_sub_total) /\ ColonAfter(ln, Len(T_sub_total))
    \/ StartsWith(Lower(ln), T_subtotal) /\ ColonAfter(ln, Len(T_subtotal))

\* re.search(r'^Description\s+Qty\s+Rate\s+Amount$', ln, flags=re.I)
IsDescriptionHeader(ln) == Lower(ln) = T_description_header

\* re.match(r'^(.*?)\s+-\s+(\d+)\s+Pc\s+<money>\s+<money>$', ln, flags=re.I) over the
\* tokens t of ln: the last five are '-', the quantity, 'Pc', the rate and the amount
EatItemMatch(t, n) ==
    /\ n >= 6
    /\ t[n - 4] = <<"-">>
    /\ IsDigitStr(t[n - 3])
    /\ Lower(t[n - 2]) = T_pc
    /\ IsMoneyLoose(t[n - 1])
    /\ IsMoneyLoose(t[n])

\* \s*/?\s*(?:HSN|SAC)? up to the \b, and \s*[:#-]?\s* after it, in a text whose
\* whitespace runs are single spaces
HsnGapBefore ==
    {a \o sl \o b \o kw : a \in {<< >>, <<" ">>}, sl \in {<< >>, <<"/">>},
                          b \in {<< >>, <<" ">>}, kw \in {<< >>, T_hsn, T_sac}}

HsnGapAfter ==
    {c \o pu \o d : c \in {<< >>, <<" ">>}, pu \in {<< >>, <<":">>, <<"#">>, <<"-">>},
                    d \in {<< >>, <<" ">>}}

\* the pattern matches from position i with these two gaps: the position of its first digit
HsnDigitsAt(s, i, pre, post) == i + Len(T_hsn) + Len(pre) + Len(post)

HsnMatchWith(s, i, pre, post) ==
    /\ HsnDigitsAt(s, i, pre, post) <= Len(s)
    /\ Lower(SubSeq(s, i + Len(T_hsn), HsnDigitsAt(s, i, pre, post) - 1)) = pre \o post
    /\ BoundaryAt(s, i + Len(T_hsn) + Len(pre))
    /\ s[HsnDigitsAt(s, i, pre, post)] \in DigitChars

\* \b(?:HSN|SAC)\s*/?\s*(?:HSN|SAC)?\b\s*[:#-]?\s*\d+ matches from position i: the
\* positions its digits can start at
HsnMatches(s, i) ==
    IF BoundaryAt(s, i) /\ (WordAt(s, i, T_hsn) \/ WordAt(s, i, T_sac))
    THEN {d \in i..Len(s) : \E pre \in HsnGapBefore : \E post \in HsnGapAfter :
             HsnDigitsAt(s, i, pre, post) = d /\ HsnMatchWith(s, i, pre, post)}
    ELSE {}

\* re.sub(<that pattern>, '', s, flags=re.I) from position i on
RECURSIVE RemoveHsn(_, _)
RECURSIVE RemoveHsnAt(_, _, _)
RemoveHsnAt(s, i, starts) ==
    IF starts = {} THEN <<s[i]>> \o RemoveHsn(s, i + 1)
    ELSE RemoveHsn(s, DigitRunEnd(s, Least(starts)) + 1)

RemoveHsn(s, i) == IF i > Len(s) THEN << >> ELSE RemoveHsnAt(s, i, HsnMatches(s, i))

\* clean_name(s)
clean_name(s) == Strip(RemoveHsn(Strip(CollapseWs(s)), 1))

\* name[:180]
Head180(name) == IF Len(name) <= 180 THEN name ELSE SubSeq(name, 1, 180)

\* the item of a matching line: None if the name is empty or the amount unknown
EatItemOf(name, qty, amt) ==
    IF name = << >> \/ amt = None THEN None
    ELSE Some([name |-> Head180(name), qty |-> qty, amount |-> Val(amt)])

EatItemFrom(t, n) ==
    EatItemOf(clean_name(JoinSp(SubSeq(t, 1, n - 5))), DigitsVal(t[n - 3]),
              norm_money_search(Some(t[n]), T_rupee_misread))

\* what a line inside the table gives: None, or Some(item)
EatLineItem(ln) ==
    IF EatItemMatch(Tokens(ln), Len(Tokens(ln))) THEN EatItemFrom(Tokens(ln), Len(Tokens(ln)))
    ELSE None

\* str.endswith
EndsWith(s, suffix) ==
    Len(s) >= Len(suffix) /\ SubSeq(s, Len(s) - Len(suffix) + 1, Len(s)) = suffix

Abs(d) == IF d < 0 THEN 0 - d ELSE d

Min2(a, b) == IF a <= b THEN a ELSE b

IsSrWord(w) == Lower(w.text) \in {T_sr, T_sr \o <<".">>}

IsNoWord(w) == Lower(w.text) \in {T_no, T_no \o <<".">>}

\* the words w2 that complete the header anchor started by word i
NoWordsFor(words, i) ==
    {k \in 1..Len(words) :
        /\ IsNoWord(words[k])
        /\ 2 * Abs(words[k].top - words[i].top) < 5
        /\ words[k].x0 > words[i].x0}

\* the words 'sr.' that have a word 'no' to their right on their line
SrNoWords(words) ==
    {i \in 1..Len(words) : IsSrWord(words[i]) /\ NoWordsFor(words, i) # {}}

BlinkitHeaderTopAt(words, i) ==
    Some(Min2(words[i].top, words[Least(NoWordsFor(words, i))].top))

BlinkitHeaderTopIn(words, srs) ==
    IF srs = {} THEN None ELSE BlinkitHeaderTopAt(words, Least(srs))

\* header_top of the Blinkit page loop
BlinkitHeaderTop(words) == BlinkitHeaderTopIn(words, SrNoWords(words))

\* the words 'total' in the left column and more than 50 below the header anchor
TotalRowWords(words, header_top) ==
    {i \in 1..Len(words) :
        /\ Lower(words[i].text) = T_total
        /\ words[i].x0 < 100
        /\ words[i].top > header_top + 50}

\* the word whose top is total_row_top: the last of them in sorted(totals, key=top),
\* a stable sort
TotalRowWordIn(words, S) ==
    IF S = {} THEN None
    ELSE Some(CHOOSE i \in S : \A j \in S :
                  words[j].top < words[i].top \/ (words[j].top = words[i].top /\ j <= i))

TotalRowWord(words, header_top) == TotalRowWordIn(words, TotalRowWords(words, header_top))

\* (0, y0, page.width, y1) of the Blinkit page loop, for a page with header anchor
BlinkitRegionOf(page, header_top, footer) ==
    [y0 |-> Max2(0, header_top - 8),
     y1 |-> Min2(page.height,
                 IF footer # None THEN page.words[Val(footer)].top + 25 ELSE header_top + 260)]

BlinkitRegion(page, header_top) ==
    BlinkitRegionOf(page, header_top, TotalRowWord(page.words, header_top))

\* the words 'total' right of word i and less than 3.0 from its top
TotalWordsFor(words, i) ==
    {k \in 1..Len(words) :
        /\ Lower(words[k].text) = T_total
        /\ Abs(words[k].top - words[i].top) < 3
        /\ words[k].x0 > words[i].x0}

ItemTotalWordIn(S) == IF S = {} THEN None ELSE Some(Least(S))

\* the word whose top is item_total_top: the first word 'item' with a 'total' on its line
ItemTotalWord(words) ==
    ItemTotalWordIn({i \in 1..Len(words) :
                        Lower(words[i].text) = T_item /\ TotalWordsFor(words, i) # {}})

\* (0, y0, page.width, y1) of table_extract_items, for a page with header anchor
ZeptoRegionOf(page, header_top, footer) ==
    [y0 |-> Max2(0, header_top - 10),
     y1 |-> Min2(page.height,
                 IF footer # None THEN page.words[Val(footer)].top + 80 ELSE header_top + 520)]

ZeptoRegion(page, header_top) == ZeptoRegionOf(page, header_top, ItemTotalWord(page.words))

\* header = [str(c or '').strip().lower() for c in tb[0]]
BlinkitHeader(tb) == [k \in 1..Len(tb[1]) |-> Lower(Strip(CellStr(tb[1][k])))]

IsBlinkitTotalHeader(c) == c = T_total \/ EndsWith(c, T_total)

IsDiscountHeader(c) == Contains(c, T_discount)

IsMrpHeader(c) == c = T_mrp \/ Contains(c, T_mrp)

\* the columns of the Blinkit header; 0 stands for None
BlinkitCols(header) ==
    [desc |-> FirstIdx(header, IsDescHeader),
     qty |-> FirstIdx(header, IsQtyHeader),
     total |-> FirstIdx(header, IsBlinkitTotalHeader),
     disc |-> FirstIdx(header, IsDiscountHeader),
     mrp |-> FirstIdx(header, IsMrpHeader)]

\* norm_money(str(row[idx] or '')) if idx is not None and idx < len(row), else None
MoneyCol(row, idx) ==
    IF idx # 0 /\ idx <= Len(row) THEN norm_money(Some(CellStr(row[idx]))) ELSE None

\* inv_items, inv_total, inv_mrp_sum, inv_discount_sum while the rows are read
Invoice(list, total, mrp_sum, discount_sum) ==
    [items |-> list, invoice_total |-> total, mrp_sum |-> mrp_sum, discount_sum |-> discount_sum]

Plus(sum, v) == IF v = None THEN sum ELSE sum + Val(v)

\* inv_items.append({...}) and the two running sums
BlinkitAppend(inv, name, qty, total, mrp, disc) ==
    Invoice(Append(inv.items, [name |-> name, qty |-> qty, total |-> total,
                               mrp |-> mrp, discount |-> disc]),
            inv.invoice_total,
            Plus(inv.mrp_sum, mrp),
            Plus(inv.discount_sum, disc))

\* an item row, from `if not desc: continue` on
BlinkitItemRow(row, cols, inv, desc) ==
    IF desc = << >> THEN inv
    ELSE BlinkitAppend(inv, desc, QtyOf(ColText(row, cols.qty)), MoneyCol(row, cols.total),
                       MoneyCol(row, cols.mrp), MoneyCol(row, cols.disc))

\* the Total row: inv_total is read from the total column when the row has it
BlinkitTotalRow(row, cols, inv) ==
    IF cols.total # 0 /\ cols.total <= Len(row)
    THEN Invoice(inv.items, MoneyCol(row, cols.total), inv.mrp_sum, inv.discount_sum)
    ELSE inv

\* desc = re.sub(r'\s+', ' ', str(desc or '')).strip()
BlinkitDesc(row, idx) ==
    IF idx # 0 /\ idx <= Len(row) THEN Strip(CollapseWs(CellStr(row[idx]))) ELSE << >>

\* one iteration of `for row in tb[1:]`
BlinkitRow(row, cols, inv) ==
    IF row = << >> THEN inv
    ELSE IF Lower(Strip(CellStr(row[1]))) \in {T_total, T_grand_total}
    THEN BlinkitTotalRow(row, cols, inv)
    ELSE BlinkitItemRow(row, cols, inv, BlinkitDesc(row, cols.desc))

RECURSIVE BlinkitRowsFrom(_, _, _, _)
BlinkitRowsFrom(tb, r, cols, inv) ==
    IF r > Len(tb) THEN inv
    ELSE BlinkitRowsFrom(tb, r + 1, cols, BlinkitRow(tb[r], cols, inv))

\* the dictionary appended to invoices for the page at 1-based position p; the sums
\* are whole hundredths, which round(x, 2) leaves as they are
BlinkitInvoiceOf(p, inv) ==
    [page_index |-> p - 1,
     items |-> inv.items,
     invoice_total |-> inv.invoice_total,
     mrp_sum |-> inv.mrp_sum,
     discount_sum |-> inv.discount_sum]

\* the page loop's body from `tb = tbs[0]` on: tb[0] of an empty table raises IndexError
BlinkitTable(tb, p) ==
    IF tb = << >> THEN Result(TRUE, << >>)
    ELSE Result(FALSE,
                <<BlinkitInvoiceOf(p, BlinkitRowsFrom(tb, 2, BlinkitCols(BlinkitHeader(tb)),
                                                      Invoice(<< >>, None, 0, 0)))>>)

\* one iteration of `for pi, pg in enumerate(pages)`: the invoices it appends (0 or 1),
\* or raised = TRUE when an exception leaves the loop body
BlinkitPageResult(page, p) ==
    IF BlinkitHeaderTop(page.words) = None THEN Result(FALSE, << >>)
    ELSE IF page.grid = << >> THEN Result(FALSE, << >>)
    ELSE BlinkitTable(page.grid[1], p)

\* s += float(inv['invoice_total']) over the invoices whose total is known
RECURSIVE SumTotals(_)
SumTotals(invs) ==
    IF invs = << >> THEN 0 ELSE Plus(SumTotals(Tail(invs)), Head(invs).invoice_total)

\* An overall total that is 0.0 when no invoice has a known total, unknown totals being
\* summed as zero: what C23_OverallIsSumOfKnown rules out.
OverallTotalOfAll(invs) == IF invs = << >> THEN None ELSE Some(SumTotals(invs))

\* overall_total
OverallTotal(invs) ==
    IF \E k \in 1..Len(invs) : invs[k].invoice_total # None
    THEN Some(SumTotals(invs))
    ELSE None

(***************************************************************************)
(* The sanity check on the document text at the head of main() in the      *)
(* Swiggy, District, EatClub, redBus and Zomato parsers.                   *)
(***************************************************************************)
\* the texts looked for in text.lower()
Markers(p) ==
    CASE p = "swiggy" -> {<<"s", "w", "i", "g", "g", "y">>,
                          <<"b", "u", "n", "d", "l", " ", "t", "e", "c", "h", "n", "o",
                            "l", "o", "g", "i", "e", "s">>}
      [] p = "district" -> {<<"t", "i", "c", "k", "e", "t", "n", "e", "w">>,
                            <<"o", "r", "b", "g", "e", "n">>,
                            <<"t", "a", "x", " ", "i", "n", "v", "o", "i", "c", "e">>}
      [] p = "eatclub" -> {<<"e", "a", "t", "c", "l", "u", "b">>,
                           <<"e", "a", "t", "c", "l", "u", "b", " ", "b", "r", "a", "n", "d", "s">>,
                           <<"m", "o", "j", "o", "p", "i", "z", "z", "a">>}
      [] p = "redbus" -> {<<"r", "e", "d", "b", "u", "s">>,
                          <<"t", "a", "x", " ", "i", "n", "v", "o", "i", "c", "e">>}
      [] p = "zomato" -> {<<"z", "o", "m", "a", "t", "o">>,
                          <<"z", "o", "m", "a", "t", "o", " ", "l", "i", "m", "i", "t", "e", "d">>,
                          <<"z", "o", "m", "a", "t", "o", " ", "m", "e", "d", "i", "a">>}

\* m in text.lower(): the text is its lines joined by newlines and no marker holds one
InText(lns, m) == \E i \in 1..Len(lns) : Contains(Lower(lns[i]), m)

\* the condition of the check: none of the markers is in the text
NoMarker(p, lns) == \A m \in Markers(p) : ~InText(lns, m)

\* {'ok': False, 'reason': 'not_<vendor>'}
NotVendor(p) ==
    [ok |-> FALSE,
     reason |-> CASE p = "swiggy" -> "not_swiggy"
                  [] p = "district" -> "not_district"
                  [] p = "eatclub" -> "not_eatclub"
                  [] p = "redbus" -> "not_redbus"
                  [] p = "zomato" -> "not_zomato"]

(***************************************************************************)
(* The documents the model draws.  A page is what the PDF layer gives for  *)
(* it: its words, and the tables extract_tables returns under the grid     *)
(* settings and under the text settings.                                   *)
(***************************************************************************)
\* the header row of a grid table
GridHeaderRow ==
    <<Some(<<"S", "r">>),
      Some(<<"I", "t", "e", "m", " ", "D", "e", "s", "c", "r", "i", "p", "t", "i", "o", "n">>),
      Some(<<"H", "S", "N">>),
      Some(<<"Q", "t", "y">>),
      Some(<<"T", "o", "t", "a", "l">>)>>

\* grid rows: a well-formed row
GR_lemon ==
    <<Some(<<"1">>),
      Some(<<"L", "e", "m", "o", "n">>),
      Some(<<"0", "7", "0", "3", "1", "0", "1", "0">>),
      Some(<<"2">>),
      Some(<<"2", "1", ".", "0", "0">>)>>

GR_apple ==
    <<Some(<<"2">>),
      Some(<<"A", "p", "p", "l", "e">>),
      Some(<<"0", "8", "0", "8", "1", "0", "0", "0">>),
      Some(<<"1">>),
      Some(<<"5", ".", "0", "0">>)>>

\* a total that is no number
GR_badTotal ==
    <<Some(<<"3">>),
      Some(<<"M", "i", "l", "k">>),
      Some(<<"0", "4", "0", "1", "2", "0", "0", "0">>),
      Some(<<"1">>),
      Some(<<"x">>)>>

\* a total cell that is None
GR_noTotal ==
    <<Some(<<"3">>),
      Some(<<"M", "i", "l", "k">>),
      Some(<<"0", "4", "0", "1", "2", "0", "0", "0">>),
      Some(<<"1">>),
      None>>

\* a quantity that is no number
GR_badQty ==
    <<Some(<<"3">>),
      Some(<<"M", "i", "l", "k">>),
      Some(<<"0", "4", "0", "1", "2", "0", "0", "0">>),
      Some(<<"x">>),
      Some(<<"3", "0">>)>>

\* rows with fewer cells than the header
GR_short2 ==
    <<Some(<<"4">>),
      Some(<<"S", "a", "l", "t">>)>>

GR_short1 ==
    <<Some(<<"5">>)>>

\* the totals row of the table
GR_totalRow ==
    <<Some(<<"T", "o", "t", "a", "l">>),
      None,
      None,
      None,
      Some(<<"2", "6", ".", "0", "0">>)>>

\* two items merged into one row
GR_multi ==
    <<Some(<<"1", "\n", "2">>),
      Some(<<"L", "e", "m", "o", "n", "\n", "A", "p", "p", "l", "e">>),
      Some(<<"0", "7", "0", "3", "1", "0", "1", "0", "\n", "0", "8", "0", "8", "1", "0", "0", "0">>),
      Some(<<"2", "\n", "1">>),
      Some(<<"2", "1", ".", "0", "0", "\n", "5", ".", "0", "0">>)>>

\* merged rows whose other cells carry fewer or unusable sub-values
GR_multiFewTotals ==
    <<Some(<<"1", "\n", "2">>),
      Some(<<"L", "e", "m", "o", "n", "\n", "A", "p", "p", "l", "e">>),
      Some(<<"0", "7", "0", "3", "1", "0", "1", "0", "\n", "0", "8", "0", "8", "1", "0", "0", "0">>),
      Some(<<"2", "\n", "1">>),
      Some(<<"2", "1", ".", "0", "0">>)>>

GR_multiBad ==
    <<Some(<<"1", "\n", "2">>),
      Some(<<"L", "e", "m", "o", "n", "\n", "A", "p", "p", "l", "e">>),
      Some(<<"0", "7", "0", "3", "1", "0", "1", "0", "\n", "0", "8", "0", "8", "1", "0", "0", "0">>),
      Some(<<"x", "\n", "1">>),
      Some(<<"x", "\n", "5", ".", "0", "0">>)>>

GR_multiShort ==
    <<Some(<<"1", "\n", "2">>),
      Some(<<"L", "e", "m", "o", "n", "\n", "A", "p", "p", "l", "e">>)>>

\* a row without description
GR_blankDesc ==
    <<Some(<<"6">>),
      None,
      Some(<<"0", "4", "0", "1", "2", "0", "0", "0">>),
      Some(<<"1">>),
      Some(<<"3", "0">>)>>

\* a grid row whose description holds no letter
GR_numName ==
    <<Some(<<"7">>),
      Some(<<"5", "5">>),
      Some(<<"0", "7", "0", "3", "1", "0", "1", "0">>),
      Some(<<"2">>),
      Some(<<"2", "1", ".", "0", "0">>)>>

GridRows ==
    {GR_lemon, GR_apple, GR_badTotal, GR_noTotal, GR_badQty, GR_short2, GR_short1,
     GR_totalRow, GR_multi, GR_multiFewTotals, GR_multiBad, GR_multiShort, GR_blankDesc, << >>}

\* the header row of a text table
TextHeaderRow ==
    <<Some(<<"S", "r">>),
      Some(<<"I", "t", "e", "m">>),
      Some(<<"H", "S", "N">>),
      Some(<<"Q", "t", "y">>),
      Some(<<"T", "o", "t", "a", "l">>)>>

\* text-table rows: the item of GR_lemon with every column
TR_lemon ==
    <<Some(<<"1">>),
      Some(<<"L", "e", "m", "o", "n">>),
      Some(<<"0", "7", "0", "3", "1", "0", "1", "0">>),
      Some(<<"2">>),
      Some(<<"1", "0", ".", "0", "0">>),
      Some(<<"0", "%">>),
      Some(<<"2", "0", ".", "0", "0">>),
      Some(<<"2", ".", "5", "%">>),
      Some(<<"2", ".", "5", "%">>),
      Some(<<"0", ".", "5", "0">>),
      Some(<<"0", ".", "5", "0">>),
      Some(<<"0", "%">>),
      Some(<<"0", ".", "0", "0">>),
      Some(<<"2", "1", ".", "0", "0">>)>>

\* the same item with its name in capitals
TR_lemonUpper ==
    <<Some(<<"1">>),
      Some(<<"L", "E", "M", "O", "N">>),
      Some(<<"0", "7", "0", "3", "1", "0", "1", "0">>),
      Some(<<"2">>),
      Some(<<"1", "0", ".", "0", "0">>),
      Some(<<"0", "%">>),
      Some(<<"2", "0", ".", "0", "0">>),
      Some(<<"2", ".", "5", "%">>),
      Some(<<"2", ".", "5", "%">>),
      Some(<<"0", ".", "5", "0">>),
      Some(<<"0", ".", "5", "0">>),
      Some(<<"0", "%">>),
      Some(<<"0", ".", "0", "0">>),
      Some(<<"2", "1", ".", "0", "0">>)>>

\* a row whose tax code is split over two cells
TR_milk ==
    <<Some(<<"3">>),
      Some(<<"M", "i", "l", "k">>),
      Some(<<"0", "4", "0", "1", "2", "0">>),
      Some(<<"0", "0", "6">>),
      Some(<<"2", "5", ".", "0", "0">>),
      Some(<<"0", "%">>),
      Some(<<"1", "5", "0", ".", "0", "0">>),
      Some(<<"0", "%">>),
      Some(<<"0", "%">>),
      Some(<<"0", ".", "0", "0">>),
      Some(<<"0", ".", "0", "0">>),
      Some(<<"0", "%">>),
      Some(<<"0", ".", "0", "0">>),
      Some(<<"1", "5", "0", ".", "0", "0">>)>>

\* the totals row, which ends the scan
TR_total ==
    <<Some(<<"I", "t", "e", "m", " ", "T", "o", "t", "a", "l">>),
      Some(<<"1", "7", "1", ".", "0", "0">>)>>

\* text-table rows with their tax code in one cell: a 7-digit code followed by the
\* quantity, a 6-digit code followed by a two-digit quantity, an 8-digit code
TR_apple7 ==
    <<Some(<<"2">>),
      Some(<<"A", "p", "p", "l", "e">>),
      Some(<<"0", "8", "0", "8", "1", "0", "0">>),
      Some(<<"3">>),
      Some(<<"1", "0", ".", "0", "0">>),
      Some(<<"0", "%">>),
      Some(<<"2", "0", ".", "0", "0">>),
      Some(<<"2", ".", "5", "%">>),
      Some(<<"2", ".", "5", "%">>),
      Some(<<"0", ".", "5", "0">>),
      Some(<<"0", ".", "5", "0">>),
      Some(<<"0", "%">>),
      Some(<<"0", ".", "0", "0">>),
      Some(<<"2", "1", ".", "0", "0">>)>>

TR_salt6 ==
    <<Some(<<"4">>),
      Some(<<"S", "a", "l", "t">>),
      Some(<<"2", "5", "0", "1", "0", "0">>),
      Some(<<"1", "2">>),
      Some(<<"1", "0", ".", "0", "0">>),
      Some(<<"0", "%">>),
      Some(<<"2", "0", ".", "0", "0">>),
      Some(<<"2", ".", "5", "%">>),
      Some(<<"2", ".", "5", "%">>),
      Some(<<"0", ".", "5", "0">>),
      Some(<<"0", ".", "5", "0">>),
      Some(<<"0", "%">>),
      Some(<<"0", ".", "0", "0">>),
      Some(<<"2", "1", ".", "0", "0">>)>>

TR_rice ==
    <<Some(<<"5">>),
      Some(<<"R", "i", "c", "e">>),
      Some(<<"1", "0", "0", "6", "3", "0", "1", "0">>),
      Some(<<"1">>),
      Some(<<"1", "0", ".", "0", "0">>),
      Some(<<"0", "%">>),
      Some(<<"2", "0", ".", "0", "0">>),
      Some(<<"2", ".", "5", "%">>),
      Some(<<"2", ".", "5", "%">>),
      Some(<<"0", ".", "5", "0">>),
      Some(<<"0", ".", "5", "0">>),
      Some(<<"0", "%">>),
      Some(<<"0", ".", "0", "0">>),
      Some(<<"2", "1", ".", "0", "0">>)>>

\* row with its cell i cut in two after p characters
CutCell(row, i, p) ==
    SubSeq(row, 1, i - 1)
    \o <<Some(SubSeq(Val(row[i]), 1, p)), Some(SubSeq(Val(row[i]), p + 1, Len(Val(row[i]))))>>
    \o SubSeq(row, i + 1, Len(row))

\* TR_rice with its 8-digit tax code split over two cells, 6 + 2 and 5 + 3
TR_riceCut62 == CutCell(TR_rice, 3, 6)

TR_riceCut53 == CutCell(TR_rice, 3, 5)

\* a row whose total is tiny beside its taxable amount, both tax amounts zero
TR_tiny ==
    <<Some(<<"6">>),
      Some(<<"C", "u", "r", "d">>),
      Some(<<"0", "4", "0", "3", "1", "0", "0", "0">>),
      Some(<<"1">>),
      Some(<<"5", "0", ".", "0", "0">>),
      Some(<<"0", "%">>),
      Some(<<"5", "0", ".", "0", "0">>),
      Some(<<"0", "%">>),
      Some(<<"0", "%">>),
      Some(<<"0", ".", "0", "0">>),
      Some(<<"0", ".", "0", "0">>),
      Some(<<"0", "%">>),
      Some(<<"0", ".", "0", "0">>),
      Some(<<"0", ".", "0", "4">>)>>

\* a text-table row whose name holds no letter
TR_numName ==
    <<Some(<<"7">>),
      Some(<<"5", "5">>),
      Some(<<"0", "7", "0", "3", "1", "0", "1", "0">>),
      Some(<<"2">>),
      Some(<<"1", "0", ".", "0", "0">>),
      Some(<<"0", "%">>),
      Some(<<"2", "0", ".", "0", "0">>),
      Some(<<"2", ".", "5", "%">>),
      Some(<<"2", ".", "5", "%">>),
      Some(<<"0", ".", "5", "0">>),
      Some(<<"0", ".", "5", "0">>),
      Some(<<"0", "%">>),
      Some(<<"0", ".", "0", "0">>),
      Some(<<"2", "1", ".", "0", "0">>)>>

TextRows ==
    {TR_lemon, TR_milk, TR_apple7, TR_salt6, TR_rice, TR_riceCut62, TR_riceCut53, TR_total}

\* text lines: the header line that starts the items section
L_sr ==
    <<"S", "R">>

\* an item line of the strict grammar: the item of GR_lemon
L_lemon ==
    <<"1", " ", "L", "e", "m", "o", "n", " ", "0", "7", "0", "3", "1", "0", "1", "0", " ",
      "2", " ", "1", "0", ".", "0", "0", " ", "0", ".", "0", "0", "%", " ", "2", "0",
      ".", "0", "0", " ", "2", ".", "5", "0", "%", " ", "2", ".", "5", "0", "%", " ",
      "0", ".", "5", "0", " ", "0", ".", "5", "0", " ", "0", ".", "0", "0", " ", "2",
      "1", ".", "0", "0">>

\* a name fragment and a pack-size fragment
L_fresh ==
    <<"F", "r", "e", "s", "h">>

L_pack ==
    <<"(", "4", " ", "p", "c", "s", ")">>

\* a line of the order-flexible grammar
L_pass ==
    <<"Z", "e", "p", "t", "o", " ", "P", "a", "s", "s", " ", "1", " ", "M", "e", "m",
      "b", "e", "r", "s", "h", "i", "p", " ", "9", "9", "8", "5", "9", "9", " ", "1",
      " ", "9", "9", ".", "0", "0", " ", "0", "%", " ", "9", "9", ".", "0", "0", " ",
      "9", ".", "0", "0", "%", " ", "9", ".", "0", "0", "%", " ", "8", ".", "9", "1",
      " ", "8", ".", "9", "1", " ", "0", "%", " ", "0", ".", "0", "0", " ", "1", "1",
      "6", ".", "8", "2">>

\* an item line whose total is tiny beside its taxable amount
L_tiny ==
    <<"6", " ", "C", "u", "r", "d", " ", "0", "4", "0", "3", "1", "0", "0", "0", " ", "1",
      " ", "5", "0", ".", "0", "0", " ", "0", ".", "0", "0", "%", " ", "5", "0", ".", "0",
      "0", " ", "0", ".", "0", "0", "%", " ", "0", ".", "0", "0", "%", " ", "0", ".", "0",
      "0", " ", "0", ".", "0", "0", " ", "0", ".", "0", "0", " ", "0", ".", "0", "4">>

\* a second name fragment
L_organic ==
    <<"O", "r", "g", "a", "n", "i", "c">>

\* a line of the address block
L_billTo ==
    <<"B", "i", "l", "l", " ", "T", "o">>

\* lines that hold a number, a percentage, a signed amount and nothing else
L_num ==
    <<"1", "2">>

L_pct ==
    <<"5", "%">>

L_signed ==
    <<"-", "5", ".", "0", "0">>

\* a second pack-size fragment
L_kg ==
    <<"1", " ", "k", "g">>

\* the line that opens the totals section
L_itemTotal ==
    <<"I", "t", "e", "m", " ", "T", "o", "t", "a", "l", " ", "2", "1", ".", "0", "0">>

Word(t, x0, top) == [text |-> t, x0 |-> x0, top |-> top]

\* a page: its words, the tables the PDF layer returns for it, its text, its height
Page(words, grid, text) == [words |-> words, grid |-> grid, text |-> text, height |-> 842]

WordsWithSr == <<Word(<<"T", "a", "x">>, 30, 40), Word(<<"S", "r">>, 30, 200)>>

WordsWithoutSr == <<Word(<<"T", "a", "x">>, 30, 40)>>

\* a page without the header anchor, whose tables would yield items
P_noHeader ==
    Page(WordsWithoutSr,
         <<<<GridHeaderRow, GR_apple>>>>,
         <<<<TextHeaderRow, TR_milk>>>>)

\* a page whose item is found by both table paths
P_lemon ==
    Page(WordsWithSr,
         <<<<GridHeaderRow, GR_lemon>>>>,
         <<<<TextHeaderRow, TR_lemon, TR_milk>>>>)

\* a page whose grid table repeats an item and whose text table repeats another
P_multi ==
    Page(WordsWithSr,
         <<<<GridHeaderRow, GR_multi, GR_lemon>>>>,
         <<<<TextHeaderRow, TR_lemonUpper, TR_lemonUpper>>>>)

\* a page without grid table, an item row having landed in the text table's header row
P_textOnly ==
    Page(WordsWithSr,
         << >>,
         <<<<TR_lemon, TR_milk, TR_total, TR_lemonUpper>>>>)

\* a page whose grid table has a row shorter than its header
P_short ==
    Page(WordsWithSr,
         <<<<GridHeaderRow, GR_apple, GR_short2>>>>,
         << >>)

\* an item line whose percentages are written as whole numbers and tenths, with a cess percentage
L_wellFormed ==
    <<"1", " ", "L", "e", "m", "o", "n", " ", "7", "0", "3", "1", "0", "1", "0", " ", "2",
      " ", "1", "0", ".", "0", "0", " ", "0", "%", " ", "2", "0", ".", "0", "0", " ", "2",
      ".", "5", "%", " ", "2", ".", "5", "%", " ", "0", ".", "5", "0", " ", "0", ".", "5",
      "0", " ", "0", "%", " ", "0", ".", "0", "0", " ", "2", "1", ".", "0", "0">>

\* an item line whose name span holds no letter
L_numName ==
    <<"1", " ", "5", "5", " ", "0", "7", "0", "3", "1", "0", "1", "0", " ", "2", " ", "1",
      "0", ".", "0", "0", " ", "0", ".", "0", "0", "%", " ", "2", "0", ".", "0", "0", " ",
      "2", ".", "5", "0", "%", " ", "2", ".", "5", "0", "%", " ", "0", ".", "5", "0", " ",
      "0", ".", "5", "0", " ", "0", ".", "0", "0", " ", "2", "1", ".", "0", "0">>

\* a membership line whose name fragments hold no letter
L_numPass ==
    <<"7", "7", " ", "1", " ", "5", "5", " ", "9", "9", "8", "5", "9", "9", " ", "1", " ",
      "9", "9", ".", "0", "0", " ", "0", "%", " ", "9", "9", ".", "0", "0", " ", "9", ".",
      "0", "0", "%", " ", "9", ".", "0", "0", "%", " ", "8", ".", "9", "1", " ", "8", ".",
      "9", "1", " ", "0", "%", " ", "0", ".", "0", "0", " ", "1", "1", "6", ".", "8", "2">>

\* a grid row whose total carries a minus sign
GR_negTotal ==
    <<Some(<<"8">>),
      Some(<<"C", "o", "u", "p", "o", "n">>),
      Some(<<"0", "7", "0", "3", "1", "0", "1", "0">>),
      Some(<<"1">>),
      Some(<<"-", "2", "1", ".", "0", "0">>)>>

\* a page whose grid table has the row with the negative total
P_negGrid == Page(WordsWithSr, <<<<GridHeaderRow, GR_negTotal>>>>, << >>)

\* a page with the header anchor and no table
P_plain == Page(WordsWithSr, << >>, << >>)

\* a page whose text table has the row with the tiny total
P_tiny == Page(WordsWithSr, << >>, <<<<TextHeaderRow, TR_tiny>>>>)

\* pages whose grid table, or text table, has the row whose name holds no letter
P_numGrid == Page(WordsWithSr, <<<<GridHeaderRow, GR_numName>>>>, << >>)

P_numText == Page(WordsWithSr, << >>, <<<<TextHeaderRow, TR_numName>>>>)

PageSet == {P_noHeader, P_lemon, P_multi, P_textOnly, P_short}

LineSet == {L_sr, L_lemon, L_fresh, L_pack, L_pass}

\* the header row of a Blinkit item table
BlinkitHeaderRow ==
    <<Some(<<"S", "r", ".", " ", "n", "o">>),
      Some(<<"I", "t", "e", "m", " ", "D", "e", "s", "c", "r", "i", "p", "t", "i", "o", "n">>),
      Some(<<"Q", "t", "y">>),
      Some(<<"M", "R", "P">>),
      Some(<<"D", "i", "s", "c", "o", "u", "n", "t">>),
      Some(<<"T", "o", "t", "a", "l">>)>>

\* Blinkit rows: a well-formed row
BR_milk ==
    <<Some(<<"1">>),
      Some(<<"M", "i", "l", "k">>),
      Some(<<"2">>),
      Some(<<"3", "0", ".", "0", "0">>),
      Some(<<"5", ".", "0", "0">>),
      Some(<<"5", "0", ".", "0", "0">>)>>

\* a total that is no number
BR_badTotal ==
    <<Some(<<"2">>),
      Some(<<"B", "r", "e", "a", "d">>),
      Some(<<"1">>),
      Some(<<"4", "0", ".", "0", "0">>),
      None,
      Some(<<"x">>)>>

\* a quantity that is no number
BR_badQty ==
    <<Some(<<"3">>),
      Some(<<"E", "g", "g", "s">>),
      Some(<<"x">>),
      Some(<<"6", "0", ".", "0", "0">>),
      Some(<<"0">>),
      Some(<<"6", "0", ".", "0", "0">>)>>

\* a row with fewer cells than the header
BR_short ==
    <<Some(<<"4">>),
      Some(<<"S", "a", "l", "t">>)>>

\* the Total row of an invoice
BR_total ==
    <<Some(<<"T", "o", "t", "a", "l">>),
      None,
      None,
      None,
      None,
      Some(<<"5", "0", ".", "0", "0">>)>>

\* a row whose discount and total carry a minus sign
BR_refund ==
    <<Some(<<"5">>),
      Some(<<"R", "e", "f", "u", "n", "d">>),
      Some(<<"1">>),
      Some(<<"3", "0", ".", "0", "0">>),
      Some(<<"-", "5", ".", "0", "0">>),
      Some(<<"-", "2", "5", ".", "0", "0">>)>>

\* a Total row whose total carries a minus sign
BR_negTotal ==
    <<Some(<<"T", "o", "t", "a", "l">>),
      None,
      None,
      None,
      None,
      Some(<<"-", "2", "5", ".", "0", "0">>)>>

\* a second well-formed row and its Total row
BR_bread ==
    <<Some(<<"2">>),
      Some(<<"B", "r", "e", "a", "d">>),
      Some(<<"1">>),
      Some(<<"4", "0", ".", "0", "0">>),
      Some(<<"0">>),
      Some(<<"4", "0", ".", "0", "0">>)>>

BR_breadTotal ==
    <<Some(<<"T", "o", "t", "a", "l">>),
      None,
      None,
      None,
      None,
      Some(<<"4", "0", ".", "0", "0">>)>>

BlinkitWordsWithHeader ==
    <<Word(<<"T", "a", "x">>, 30, 40), Word(<<"S", "r", ".">>, 30, 200), Word(<<"n", "o">>, 45, 201)>>

\* 'Sr.' without a 'no' on its line
BlinkitWordsWithoutHeader ==
    <<Word(<<"S", "r", ".">>, 30, 200), Word(<<"n", "o">>, 45, 230)>>

\* Blinkit pages: an invoice with one item and its Total row
B_milk == Page(BlinkitWordsWithHeader, <<<<BlinkitHeaderRow, BR_milk, BR_total>>>>, << >>)

\* an invoice whose rows have unusable or missing cells, without Total row
B_rough ==
    Page(BlinkitWordsWithHeader,
         <<<<BlinkitHeaderRow, BR_badTotal, BR_badQty, BR_short, << >> >>>>,
         << >>)

\* a page without the header anchor, whose table would yield an invoice
B_noHeader == Page(BlinkitWordsWithoutHeader, <<<<BlinkitHeaderRow, BR_milk, BR_total>>>>, << >>)

\* a page with the header anchor on which no table is found
B_noTable == Page(BlinkitWordsWithHeader, << >>, << >>)

\* a page whose first table has no row: tb[0] raises
B_emptyTable == Page(BlinkitWordsWithHeader, <<<< >>>>, << >>)

\* an invoice whose item and Total row carry a minus sign
B_refund == Page(BlinkitWordsWithHeader, <<<<BlinkitHeaderRow, BR_refund, BR_negTotal>>>>, << >>)

\* an invoice of another total
B_bread == Page(BlinkitWordsWithHeader, <<<<BlinkitHeaderRow, BR_bread, BR_breadTotal>>>>, << >>)

BlinkitPageSet == {B_milk, B_rough, B_noHeader, B_noTable, B_emptyTable, B_refund, B_bread}

\* document texts for the parsers that check the vendor: one line each
V_swiggy == <<"S", "w", "i", "g", "g", "y", " ", "O", "r", "d", "e", "r">>

V_zomato == <<"Z", "o", "m", "a", "t", "o", " ", "L", "i", "m", "i", "t", "e", "d">>

V_eatclub == <<"E", "a", "t", "C", "l", "u", "b">>

V_redbus == <<"r", "e", "d", "B", "u", "s">>

V_ticketnew == <<"T", "i", "c", "k", "e", "t", "N", "e", "w">>

V_taxInvoice == <<"T", "a", "x", " ", "I", "n", "v", "o", "i", "c", "e">>

V_receipt == <<"R", "e", "c", "e", "i", "p", "t">>

VendorLineSet == {V_swiggy, V_zomato, V_eatclub, V_redbus, V_ticketnew, V_taxInvoice, V_receipt}

CheckingParsers == {"swiggy", "district", "eatclub", "redbus", "zomato"}

MaxPages == 2

MaxLines == 2

MaxRows == 2

\* the sequences over S of length at most n
SeqsUpTo(S, n) == UNION {[1..k -> S] : k \in 0..n}

Doc(p, pgs, lns) == [prog |-> p, pages |-> pgs, lines |-> lns]

\* Zepto documents: pages drawn freely, with a text that holds no item line, one item
\* line of the strict grammar, or one of the order-flexible grammar
ZeptoPageDocs ==
    {Doc("zepto", pgs, lns) :
        pgs \in SeqsUpTo(PageSet, MaxPages),
        lns \in {<< >>, <<L_lemon>>, <<L_sr, L_pass>>}}

\* Zepto documents: lines drawn freely, without pages or with one page
ZeptoLineDocs ==
    {Doc("zepto", pgs, lns) :
        pgs \in {<< >>, <<P_lemon>>},
        lns \in SeqsUpTo(LineSet, MaxLines)}

\* Zepto documents: one page whose grid table has rows drawn freely
ZeptoRowDocs ==
    {Doc("zepto", <<Page(WordsWithSr, <<(<<GridHeaderRow>> \o rows)>>, << >>)>>, << >>) :
        rows \in SeqsUpTo(GridRows, MaxRows)}

\* Zepto documents: one page whose text table has rows drawn freely
\* Zepto documents: lines of the strict and of the order-flexible grammar, alone, after
\* the section anchor and between other lines, without pages or on a page with one
\* table row or none
\* the lines that follow the declared item total
L_handling ==
    <<"H", "a", "n", "d", "l", "i", "n", "g", " ", "F", "e", "e", " ", "5", ".", "0", "0">>

L_invoiceValue ==
    <<"I", "n", "v", "o", "i", "c", "e", " ", "V", "a", "l", "u", "e", " ", "2", "6", ".",
      "0", "0">>

GrammarLines ==
    {<< >>, <<L_tiny>>, <<L_wellFormed>>, <<L_sr, L_wellFormed, L_itemTotal>>, <<L_sr, L_lemon, L_itemTotal, L_handling, L_invoiceValue>>, <<L_wellFormed, L_lemon>>,
     <<L_numName>>, <<L_numName, L_lemon>>, <<L_sr, L_numName>>, <<L_numPass>>,
     <<L_sr, L_numPass>>}

GrammarPages ==
    {<< >>, <<P_plain>>, <<P_tiny>>, <<P_numGrid>>, <<P_numText>>, <<P_negGrid>>}

ZeptoGrammarDocs ==
    {Doc("zepto", pgs, lns) : pgs \in GrammarPages, lns \in GrammarLines}

ZeptoTextRowDocs ==
    {Doc("zepto", <<Page(WordsWithSr, << >>, <<(<<TextHeaderRow>> \o rows)>>)>>, << >>) :
        rows \in SeqsUpTo(TextRows, MaxRows)}

\* the lines drawn above and below an item line
\* lines above an item line: fragments and number-only lines, fragments and a
\* denylisted line
AboveSet == {L_fresh, L_num}

BoundaryAboveSet == {L_fresh, L_billTo}

\* lines below an item line: fragments, a fragment and a totals marker
BelowSet == {L_pack, L_organic}

BoundaryBelowSet == {L_pack, L_itemTotal}

\* lines either side of an item line: fragments, fragments and number-only lines
NearAboveSet == {L_fresh, L_organic}

NearBelowSet == {L_pack, L_kg}

NumberAboveSet == {L_fresh, L_pct}

NumberBelowSet == {L_kg, L_signed}

MaxAbove == 5

MaxBelow == 4

\* Zepto documents without pages: an item line under up to MaxAbove lines, an item
\* line over up to MaxBelow lines, an item line between up to MaxLines lines either side
ZeptoAboveDocs ==
    {Doc("zepto", << >>, above \o <<L_lemon>>) :
        above \in SeqsUpTo(AboveSet, MaxAbove) \cup SeqsUpTo(BoundaryAboveSet, MaxLines)}

ZeptoBelowDocs ==
    {Doc("zepto", << >>, <<L_lemon>> \o below) :
        below \in SeqsUpTo(BelowSet, MaxBelow) \cup SeqsUpTo(BoundaryBelowSet, MaxLines)}

AroundOf(aboves, belows) ==
    {Doc("zepto", << >>, above \o <<L_lemon>> \o below) :
        above \in SeqsUpTo(aboves, MaxLines), below \in SeqsUpTo(belows, MaxLines)}

ZeptoAroundDocs ==
    AroundOf(NearAboveSet, NearBelowSet) \cup AroundOf(NumberAboveSet, NumberBelowSet)

BlinkitDocs ==
    {Doc("blinkit", pgs, << >>) : pgs \in SeqsUpTo(BlinkitPageSet, MaxPages)}

VendorDocs ==
    {Doc(p, << >>, lns) : p \in CheckingParsers, lns \in SeqsUpTo(VendorLineSet, MaxLines)}

\* tables whose header has two columns that hold 'total': the last one is the line total
GridHeaderTwoTotals ==
    <<Some(<<"S", "r">>),
      Some(<<"I", "t", "e", "m", " ", "D", "e", "s", "c", "r", "i", "p", "t", "i", "o",
             "n">>),
      Some(<<"H", "S", "N">>),
      Some(<<"Q", "t", "y">>),
      Some(<<"S", "u", "b", " ", "T", "o", "t", "a", "l">>),
      Some(<<"T", "o", "t", "a", "l">>)>>

GR_twoTotals ==
    <<Some(<<"1">>),
      Some(<<"L", "e", "m", "o", "n">>),
      Some(<<"0", "7", "0", "3", "1", "0", "1", "0">>),
      Some(<<"2">>),
      Some(<<"2", "0", ".", "0", "0">>),
      Some(<<"2", "1", ".", "0", "0">>)>>

\* the words of a page with the header row 'Sr Item Description ... Total' and, below
\* the items, the row 'Item Total'
WordsWithHeaderRow ==
    <<Word(<<"T", "a", "x">>, 30, 40),
      Word(<<"S", "r">>, 30, 200),
      Word(<<"I", "t", "e", "m">>, 60, 200),
      Word(<<"D", "e", "s", "c", "r", "i", "p", "t", "i", "o", "n">>, 90, 200),
      Word(<<"T", "o", "t", "a", "l">>, 500, 200),
      Word(<<"I", "t", "e", "m">>, 30, 400),
      Word(<<"T", "o", "t", "a", "l">>, 60, 400)>>

P_twoTotals == Page(WordsWithHeaderRow, <<<<GridHeaderTwoTotals, GR_twoTotals>>>>, << >>)

BlinkitHeaderTwoTotals ==
    <<Some(<<"S", "r", ".", " ", "n", "o">>),
      Some(<<"I", "t", "e", "m", " ", "D", "e", "s", "c", "r", "i", "p", "t", "i", "o",
             "n">>),
      Some(<<"Q", "t", "y">>),
      Some(<<"S", "u", "b", " ", "T", "o", "t", "a", "l">>),
      Some(<<"D", "i", "s", "c", "o", "u", "n", "t">>),
      Some(<<"T", "o", "t", "a", "l">>)>>

BR_twoTotals ==
    <<Some(<<"1">>),
      Some(<<"M", "i", "l", "k">>),
      Some(<<"2">>),
      Some(<<"6", "0", ".", "0", "0">>),
      Some(<<"1", "0", ".", "0", "0">>),
      Some(<<"5", "0", ".", "0", "0">>)>>

BR_twoTotalsTotal ==
    <<Some(<<"T", "o", "t", "a", "l">>),
      None,
      None,
      Some(<<"6", "0", ".", "0", "0">>),
      Some(<<"1", "0", ".", "0", "0">>),
      Some(<<"5", "0", ".", "0", "0">>)>>

\* the words of a page with the header row 'Sr. no ... Total', two 'Total' rows in
\* the left column and a 'Total' further right
BlinkitWordsWithFooter ==
    <<Word(<<"T", "a", "x">>, 30, 40),
      Word(<<"S", "r", ".">>, 30, 200),
      Word(<<"n", "o">>, 45, 201),
      Word(<<"T", "o", "t", "a", "l">>, 500, 200),
      Word(<<"T", "o", "t", "a", "l">>, 30, 320),
      Word(<<"T", "o", "t", "a", "l">>, 30, 300),
      Word(<<"T", "o", "t", "a", "l">>, 120, 340)>>

B_twoTotals ==
    Page(BlinkitWordsWithFooter,
         <<<<BlinkitHeaderTwoTotals, BR_twoTotals, BR_twoTotalsTotal>>>>, << >>)

TwoTotalsDocs ==
    {Doc("zepto", <<P_twoTotals>>, << >>), Doc("blinkit", <<B_twoTotals>>, << >>)}

Docs ==
    ZeptoPageDocs \cup ZeptoLineDocs \cup ZeptoRowDocs \cup ZeptoTextRowDocs
    \cup ZeptoAboveDocs \cup ZeptoBelowDocs \cup ZeptoAroundDocs \cup ZeptoGrammarDocs
    \cup BlinkitDocs \cup VendorDocs \cup TwoTotalsDocs

(***************************************************************************)
(* The run of one parser's main() on one document.                         *)
(*   prog          the parser run: "zepto", "blinkit", or one of           *)
(*                 CheckingParsers                                         *)
(*   pages, lines  the document: its pages and the lines of its text       *)
(*   pc            the position in main.  Zepto: "grid"                    *)
(*                 (table_extract_items), "text"                           *)
(*                 (table_extract_items_text), "merge", "mode1", "mode2",  *)
(*                 "emit".  Blinkit: "invoices" (the page loop),           *)
(*                 "overall".  The others: "check", "parse".  All: "done", *)
(*                 or "raised" once an exception has left main             *)
(*   pi            the page the running loop is at (1-based)               *)
(*   out           the list `out` of the running Zepto table path          *)
(*   items         Zepto's list `items`                                    *)
(*   extra_items   Zepto's list `extra_items`                              *)
(*   idx           the line Mode 1 is at (1-based)                         *)
(*   invoices      Blinkit's list `invoices`                               *)
(*   output        the dictionary printed, None before                     *)
(***************************************************************************)
VARIABLES prog, pages, lines, pc, pi, out, items, extra_items, idx, invoices, output,
          in_table

vars == <<prog, pages, lines, pc, pi, out, items, extra_items, idx, invoices, output, in_table>>

doc == <<prog, pages, lines>>

StartRun ==
    /\ pc = (CASE prog = "zepto" -> "grid" [] prog = "blinkit" -> "invoices" [] OTHER -> "check")
    /\ pi = 1
    /\ out = << >>
    /\ items = << >>
    /\ extra_items = << >>
    /\ idx = 1
    /\ invoices = << >>
    /\ output = None
    /\ in_table = FALSE

Init ==
    /\ \E d \in Docs :
        /\ prog = d.prog
        /\ pages = d.pages
        /\ lines = d.lines
    /\ StartRun

GridPage ==
    /\ pc = "grid"
    /\ pi <= Len(pages)
    /\ \E res \in {GridPageResult(pages[pi])} :
           IF res.raised
           THEN /\ pc' = "raised"
                /\ UNCHANGED <<pi, out>>
           ELSE /\ out' = out \o res.items
                /\ pi' = pi + 1
                /\ pc' = pc
    /\ UNCHANGED <<in_table, doc, items, extra_items, idx, invoices, output>>

\* items = table_extract_items()
GridDone ==
    /\ pc = "grid"
    /\ pi > Len(pages)
    /\ items' = out
    /\ out' = << >>
    /\ pi' = 1
    /\ pc' = "text"
    /\ UNCHANGED <<in_table, doc, extra_items, idx, invoices, output>>

TextPage ==
    /\ pc = "text"
    /\ pi <= Len(pages)
    /\ \E res \in {TextPageResult(pages[pi])} :
           IF res.raised
           THEN /\ pc' = "raised"
                /\ UNCHANGED <<pi, out>>
           ELSE /\ out' = out \o res.items
                /\ pi' = pi + 1
                /\ pc' = pc
    /\ UNCHANGED <<in_table, doc, items, extra_items, idx, invoices, output>>

\* extra_items = table_extract_items_text()
TextDone ==
    /\ pc = "text"
    /\ pi > Len(pages)
    /\ extra_items' = out
    /\ out' = << >>
    /\ pc' = "merge"
    /\ UNCHANGED <<in_table, doc, pi, items, idx, invoices, output>>

\* if extra_items: ... items.append(it) for every unseen key
Merge ==
    /\ pc = "merge"
    /\ items' = MergeExtra(items, extra_items)
    /\ pc' = "mode1"
    /\ idx' = 1
    /\ UNCHANGED <<in_table, doc, pi, out, extra_items, invoices, output>>

\* one iteration of `for idx, ln in enumerate(lines)`
Mode1Step ==
    /\ pc = "mode1"
    /\ idx <= Len(lines)
    /\ items' = items \o Mode1Line(lines, idx)
    /\ idx' = idx + 1
    /\ UNCHANGED <<in_table, doc, pc, pi, out, extra_items, invoices, output>>

Mode1Done ==
    /\ pc = "mode1"
    /\ idx > Len(lines)
    /\ pc' = "mode2"
    /\ UNCHANGED <<in_table, doc, pi, out, items, extra_items, idx, invoices, output>>

\* if not items: the Mode 2 scan
Mode2Run ==
    /\ pc = "mode2"
    /\ items = << >>
    /\ items' = Mode2From(lines, ItemsSectionStart(lines))
    /\ pc' = "emit"
    /\ UNCHANGED <<in_table, doc, pi, out, extra_items, idx, invoices, output>>

Mode2Skip ==
    /\ pc = "mode2"
    /\ items # << >>
    /\ pc' = "emit"
    /\ UNCHANGED <<in_table, doc, pi, out, items, extra_items, idx, invoices, output>>

\* out = {...}; print(json.dumps(out))
Emit ==
    /\ pc = "emit"
    /\ output' = Some(ZeptoOut(JoinLines(lines), items))
    /\ pc' = "done"
    /\ UNCHANGED <<in_table, doc, pi, out, items, extra_items, idx, invoices>>

\* one iteration of the Blinkit page loop; an exception in it is caught after the loop
BlinkitPage ==
    /\ pc = "invoices"
    /\ pi <= Len(pages)
    /\ \E res \in {BlinkitPageResult(pages[pi], pi)} :
           IF res.raised
           THEN /\ pc' = "overall"
                /\ UNCHANGED <<pi, invoices>>
           ELSE /\ invoices' = invoices \o res.items
                /\ pi' = pi + 1
                /\ pc' = pc
    /\ UNCHANGED <<in_table, doc, out, items, extra_items, idx, output>>

BlinkitPagesDone ==
    /\ pc = "invoices"
    /\ pi > Len(pages)
    /\ pc' = "overall"
    /\ UNCHANGED <<in_table, doc, pi, out, items, extra_items, idx, invoices, output>>

\* overall_total, out = {...}; print(json.dumps(out))
BlinkitEmit ==
    /\ pc = "overall"
    /\ output' = Some([merchant |-> "BLINKIT",
                       overall_total |-> OverallTotal(invoices),
                       invoices |-> invoices])
    /\ pc' = "done"
    /\ UNCHANGED <<in_table, doc, pi, out, items, extra_items, idx, invoices>>

\* the sanity check: print {'ok': False, 'reason': ...} and return
VendorReject ==
    /\ pc = "check"
    /\ NoMarker(prog, lines)
    /\ output' = Some(NotVendor(prog))
    /\ pc' = "done"
    /\ UNCHANGED <<in_table, doc, pi, out, items, extra_items, idx, invoices>>

VendorAccept ==
    /\ pc = "check"
    /\ ~NoMarker(prog, lines)
    /\ pc' = "parse"
    /\ UNCHANGED <<in_table, doc, pi, out, items, extra_items, idx, invoices, output>>

\* the rest of main: the fields are extracted and {'ok': True, ...} is printed
VendorParse ==
    /\ pc = "parse"
    /\ output' = Some([ok |-> TRUE])
    /\ pc' = "done"
    /\ UNCHANGED <<in_table, doc, pi, out, items, extra_items, idx, invoices>>

Next ==
    \/ GridPage
    \/ GridDone
    \/ TextPage
    \/ TextDone
    \/ Merge
    \/ Mode1Step
    \/ Mode1Done
    \/ Mode2Run
    \/ Mode2Skip
    \/ Emit
    \/ BlinkitPage
    \/ BlinkitPagesDone
    \/ BlinkitEmit
    \/ VendorReject
    \/ VendorAccept
    \/ VendorParse

Spec == Init /\ [][Next]_vars

(***************************************************************************)
(* parse_item_row_text as a function of its own: a row text is drawn, its  *)
(* first match is taken, and the two repairs are applied to the item, as   *)
(* the function does (total first, name second) or one at a time in any    *)
(* order.  `lines` holds the row text, `extra_items` the matched item,     *)
(* `items` the item under repair and `out` the names of the rules applied. *)
(***************************************************************************)
\* a truncated-brand name and a tiny total beside a small taxable amount
RT_kinnaurTiny ==
    <<"3", " ", "K", "i", "n", "n", "a", "u", "r", " ", "4", " ", "0", "8", "0", "8", "1",
      "0", "0", "0", " ", "1", " ", "3", ".", "0", "0", " ", "0", "%", " ", "3", ".", "0",
      "0", " ", "0", "%", " ", "0", "%", " ", "0", ".", "0", "0", " ", "0", ".", "0", "0",
      " ", "0", "%", " ", "0", ".", "0", "0", " ", "0", ".", "0", "3">>

\* a lower-case truncated-brand name, a tiny total and a large taxable amount
RT_kinnaurLower ==
    <<"4", " ", "k", "i", "n", "n", "a", "u", "r", " ", "6", " ", "0", "8", "0", "8", "1",
      "0", "0", "0", " ", "1", " ", "5", "0", ".", "0", "0", " ", "0", "%", " ", "5", "0",
      ".", "0", "0", " ", "0", "%", " ", "0", "%", " ", "0", ".", "0", "0", " ", "0", ".",
      "0", "0", " ", "0", "%", " ", "0", ".", "0", "0", " ", "0", ".", "0", "4">>

\* a truncated-brand name with a sound total
RT_kinnaur ==
    <<"5", " ", "K", "i", "n", "n", "a", "u", "r", " ", "4", " ", "0", "8", "0", "8", "1",
      "0", "0", "0", " ", "2", " ", "1", "0", ".", "0", "0", " ", "0", "%", " ", "2", "0",
      ".", "0", "0", " ", "2", ".", "5", "%", " ", "2", ".", "5", "%", " ", "0", ".", "5",
      "0", " ", "0", ".", "5", "0", " ", "0", "%", " ", "0", ".", "0", "0", " ", "2", "1",
      ".", "0", "0">>

\* a complete brand name and a tiny total
RT_appleKinnaur ==
    <<"6", " ", "A", "p", "p", "l", "e", " ", "K", "i", "n", "n", "a", "u", "r", " ", "0",
      "8", "0", "8", "1", "0", "0", "0", " ", "1", " ", "5", "0", ".", "0", "0", " ", "0",
      "%", " ", "5", "0", ".", "0", "0", " ", "0", "%", " ", "0", "%", " ", "0", ".", "0",
      "0", " ", "0", ".", "0", "0", " ", "0", "%", " ", "0", ".", "0", "0", " ", "0", ".",
      "0", "4">>

\* a small total with tax amounts
RT_smallTaxed ==
    <<"7", " ", "M", "i", "n", "t", " ", "1", "2", "1", "1", "9", "0", "0", "0", " ", "1",
      " ", "3", ".", "0", "0", " ", "0", "%", " ", "3", ".", "0", "0", " ", "2", ".", "5",
      "%", " ", "2", ".", "5", "%", " ", "0", ".", "0", "8", " ", "0", ".", "0", "8", " ",
      "0", "%", " ", "0", ".", "0", "0", " ", "3", ".", "1", "6">>

\* a row text that is no item row
RT_noMatch ==
    <<"I", "t", "e", "m", " ", "T", "o", "t", "a", "l", " ", "2", "1", ".", "0", "0">>

RowTexts ==
    {L_lemon, L_tiny, RT_kinnaurTiny, RT_kinnaurLower, RT_kinnaur, RT_appleKinnaur,
     RT_smallTaxed, RT_noMatch}

\* the most rule applications followed on one item
MaxApply == 4

RepairInit ==
    /\ prog = "repair"
    /\ pages = << >>
    /\ \E rt \in RowTexts : lines = <<rt>>
    /\ pc = "row"
    /\ pi = 1
    /\ out = << >>
    /\ items = << >>
    /\ extra_items = << >>
    /\ idx = 1
    /\ invoices = << >>
    /\ output = None
    /\ in_table = FALSE

\* m = re.search(row_pat, row_text); if not m: return None; item = {...}
RowMatch ==
    /\ pc = "row"
    /\ \E m \in {RowTextMatch(lines[1])} :
           /\ extra_items' = m
           /\ items' = m
           /\ pc' = IF m = << >> THEN "no_match" ELSE "repairs"
    /\ UNCHANGED <<in_table, doc, pi, out, idx, invoices, output>>

\* the whole of parse_item_row_text on the row text
ParseItemRowText ==
    /\ pc = "row"
    /\ \E res \in {parse_item_row_text(lines[1])} :
           IF res = None
           THEN /\ pc' = "no_match"
                /\ UNCHANGED <<out, items, extra_items>>
           ELSE /\ extra_items' = RowTextMatch(lines[1])
                /\ items' = <<Val(res)>>
                /\ out' = <<"total", "name">>
                /\ pc' = "repairs"
    /\ UNCHANGED <<in_table, doc, pi, idx, invoices, output>>

\* the total/taxable rule on the item under repair
ApplyTotalRepair ==
    /\ pc = "repairs"
    /\ Len(out) < MaxApply
    /\ items' = <<TotalRepair(items[1])>>
    /\ out' = Append(out, "total")
    /\ UNCHANGED <<in_table, doc, pc, pi, extra_items, idx, invoices, output>>

\* the truncated-brand name rule on the item under repair
ApplyNameRepair ==
    /\ pc = "repairs"
    /\ Len(out) < MaxApply
    /\ items' = <<NameRepair(items[1])>>
    /\ out' = Append(out, "name")
    /\ UNCHANGED <<in_table, doc, pc, pi, extra_items, idx, invoices, output>>

RepairNext ==
    \/ RowMatch
    \/ ParseItemRowText
    \/ ApplyTotalRepair
    \/ ApplyNameRepair

RepairSpec == RepairInit /\ [][RepairNext]_vars

(***************************************************************************)
(* The money normalisation of each parser as a function of its own: a      *)
(* money string is drawn, and the parser's function is applied to it.      *)
(* `lines` holds the string and `output` the value returned.               *)
(***************************************************************************)
\* the digits before the first comma, groups of three digits, and decimals
HeadSet == {<<"1">>, <<"1", "2">>}

GroupSet == {<<"2", "3", "4">>, <<"0", "0", "5">>, <<"9", "9", "9">>}

DecimalSet == {<< >>, <<".", "5">>, <<".", "5", "0">>, <<".", "0", "5">>}

\* the most groups of three digits in a money string
MaxGroups == 1

\* the groups, each after a comma
RECURSIVE Grouped(_)
Grouped(groups) ==
    IF groups = << >> THEN << >> ELSE <<",">> \o Head(groups) \o Grouped(Tail(groups))

\* money strings with grouping commas and 0 to 2 decimal digits
GroupedStrings ==
    {head \o Grouped(groups) \o decimals :
        head \in HeadSet, groups \in SeqsUpTo(GroupSet, MaxGroups), decimals \in DecimalSet}

\* the decimals of a string without commas padded to two digits
Padded(parts) ==
    IF Len(parts) = 1 THEN parts[1] \o <<".", "0", "0">>
    ELSE IF Len(parts[2]) = 1 THEN parts[1] \o <<".">> \o parts[2] \o <<"0">>
    ELSE parts[1] \o <<".">> \o parts[2]

\* the same amount without commas, two decimals
PlainOf(m) == Padded(SplitOn(RemoveChar(m, ","), "."))

MoneyStrings == GroupedStrings \cup {PlainOf(m) : m \in GroupedStrings}

MoneyParsers == {"blinkit", "swiggy", "zomato", "redbus", "district", "eatclub", "zepto"}

\* the money normalisation of parser p
NormOf(p, s) ==
    CASE p = "blinkit" -> norm_money(s)
      [] p \in {"swiggy", "zomato"} -> norm_money_str(s)
      [] p \in {"redbus", "district"} -> norm_money_search(s, T_rupee)
      [] p = "eatclub" -> norm_money_search(s, T_rupee_misread)
      [] p = "zepto" -> fnum(s)

MoneyInit ==
    /\ prog \in MoneyParsers
    /\ pages = << >>
    /\ \E m \in MoneyStrings : lines = <<m>>
    /\ pc = "money"
    /\ pi = 1
    /\ out = << >>
    /\ items = << >>
    /\ extra_items = << >>
    /\ idx = 1
    /\ invoices = << >>
    /\ output = None
    /\ in_table = FALSE

MoneyReturned(value) ==
    /\ pc = "money"
    /\ output' = value
    /\ pc' = "returned"
    /\ UNCHANGED <<in_table, doc, pi, out, items, extra_items, idx, invoices>>

\* parse_blinkit_invoice.norm_money
BlinkitNormMoney == prog = "blinkit" /\ MoneyReturned(norm_money(Some(lines[1])))

\* norm_money of parse_swiggy_invoice.py and parse_zomato_invoice.py
StrNormMoney == prog \in {"swiggy", "zomato"} /\ MoneyReturned(norm_money_str(Some(lines[1])))

\* norm_money of parse_redbus_invoice.py and parse_district_invoice.py
SearchNormMoney ==
    prog \in {"redbus", "district"} /\ MoneyReturned(norm_money_search(Some(lines[1]), T_rupee))

\* parse_eatclub_invoice.norm_money
EatclubNormMoney ==
    prog = "eatclub" /\ MoneyReturned(norm_money_search(Some(lines[1]), T_rupee_misread))

\* parse_zepto_invoice.fnum
ZeptoFnum == prog = "zepto" /\ MoneyReturned(fnum(Some(lines[1])))

MoneyNext ==
    \/ BlinkitNormMoney
    \/ StrNormMoney
    \/ SearchNormMoney
    \/ EatclubNormMoney
    \/ ZeptoFnum

MoneySpec == MoneyInit /\ [][MoneyNext]_vars

(***************************************************************************)
(* The digit-split repair loop of table_extract_items_text, step by step:  *)
(* lines holds the cells of one row, idx is i + 1, and out keeps the cells *)
(* the loop started from.                                                  *)
(***************************************************************************)
C_hsn6 ==
    <<"0", "4", "0", "1", "2", "0">>

C_hsn7 ==
    <<"0", "4", "0", "1", "2", "0", "1">>

C_qty3 ==
    <<"0", "0", "6">>

C_qty1 ==
    <<"6">>

C_name ==
    <<"M", "i", "l", "k">>

\* the cells a cleaned-up row is drawn from: none is empty
SplitCells == {C_hsn6, C_hsn7, C_qty3, C_qty1, C_name}

MaxCells == 3

SplitInit ==
    /\ prog = "split"
    /\ pages = << >>
    /\ \E cells \in SeqsUpTo(SplitCells, MaxCells) : lines = cells /\ out = cells
    /\ pc = "split"
    /\ pi = 1
    /\ items = << >>
    /\ extra_items = << >>
    /\ idx = 1
    /\ invoices = << >>
    /\ output = None
    /\ in_table = FALSE

\* cells.pop(i + 1)
PopCell(cells, i) == SubSeq(cells, 1, i) \o SubSeq(cells, i + 2, Len(cells))

\* the condition holds and b is used up: cells.pop(i + 1); continue
SplitJoinPop ==
    /\ pc = "split"
    /\ idx < Len(lines)
    /\ IsSplitHsn(lines[idx], lines[idx + 1])
    /\ \E moved \in {MoveDigits(lines, idx, HsnLen - Len(lines[idx]))} :
           /\ moved[idx + 1] = << >>
           /\ lines' = PopCell(moved, idx)
    /\ UNCHANGED <<in_table, prog, pages, pc, pi, out, items, extra_items, idx, invoices, output>>

\* the condition holds and digits of b remain: i += 1
SplitJoinKeep ==
    /\ pc = "split"
    /\ idx < Len(lines)
    /\ IsSplitHsn(lines[idx], lines[idx + 1])
    /\ \E moved \in {MoveDigits(lines, idx, HsnLen - Len(lines[idx]))} :
           /\ moved[idx + 1] # << >>
           /\ lines' = moved
    /\ idx' = idx + 1
    /\ UNCHANGED <<in_table, prog, pages, pc, pi, out, items, extra_items, invoices, output>>

\* the condition fails: i += 1
SplitSkip ==
    /\ pc = "split"
    /\ idx < Len(lines)
    /\ ~IsSplitHsn(lines[idx], lines[idx + 1])
    /\ idx' = idx + 1
    /\ UNCHANGED <<in_table, doc, pc, pi, out, items, extra_items, invoices, output>>

\* while i < len(cells) - 1 fails: the loop is left
SplitEnd ==
    /\ pc = "split"
    /\ idx >= Len(lines)
    /\ pc' = "split_done"
    /\ UNCHANGED <<in_table, doc, pi, out, items, extra_items, idx, invoices, output>>

SplitNext ==
    \/ SplitJoinPop
    \/ SplitJoinKeep
    \/ SplitSkip
    \/ SplitEnd

\* the loop is the only thing running: a step that can be taken is taken
SplitSpec == SplitInit /\ [][SplitNext]_vars /\ WF_vars(SplitNext)

(***************************************************************************)
(* parse_eatclub_invoice.py: the vendor check, then the scan of the lines  *)
(* one iteration per step; idx is the position of the line at hand.        *)
(***************************************************************************)
E_brand ==
    <<"E", "a", "t", "C", "l", "u", "b", " ", "B", "r", "a", "n", "d", "s">>

E_product ==
    <<"P", "r", "o", "d", "u", "c", "t", " ", "D", "e", "t", "a", "i", "l", "s">>

E_productLoose ==
    <<"P", "R", "O", "D", "U", "C", "T", " ", " ", " ", "d", "e", "t", "a", "i", "l", "s">>

E_header ==
    <<"D", "e", "s", "c", "r", "i", "p", "t", "i", "o", "n", " ", "Q", "t", "y", " ", "R", "a",
      "t", "e", " ", "A", "m", "o", "u", "n", "t">>

E_pizza ==
    <<"G", "o", "l", "d", "e", "n", " ", "C", "o", "r", "n", " ", "P", "i", "z", "z", "a", " ",
      "-", " ", "2", " ", "P", "c", " ", "1", "9", "5", ".", "0", " ", "3", "9", "0", ".", "0">>

E_hsnOnly ==
    <<"H", "S", "N", " ", "9", "9", "6", "3", "3", "1", " ", "-", " ", "1", " ", "P", "c", " ",
      "1", "0", " ", "1", "0">>

E_subTotal ==
    <<"S", "u", "b", " ", "T", "o", "t", "a", "l", ":", " ", "3", "9", "0", ".", "0">>

E_subTotalTight ==
    <<"S", "u", "b", "T", "o", "t", "a", "l", " ", ":", " ", "3", "9", "0", ".", "0">>

\* the lines the scanned texts are drawn from
EatLineSet == {E_product, E_pizza, E_subTotal}

MaxScan == 5

\* texts with a header row, an empty line, a name that cleans to nothing, and the
\* markers written loosely
EatFixedTexts ==
    {<<E_productLoose, E_header, << >>, E_hsnOnly, E_pizza, E_subTotalTight, E_pizza>>,
     <<E_subTotal, E_pizza, E_product, E_product, E_pizza, << >>, E_pizza, E_subTotal, E_product,
       E_pizza>>}

EatclubInit ==
    /\ prog = "eatclub"
    /\ pages = << >>
    /\ \E head \in {<< >>, <<E_brand>>} :
       \E body \in SeqsUpTo(EatLineSet, MaxScan) \cup EatFixedTexts : lines = head \o body
    /\ pc = "check"
    /\ pi = 1
    /\ out = << >>
    /\ items = << >>
    /\ extra_items = << >>
    /\ idx = 1
    /\ invoices = << >>
    /\ output = None
    /\ in_table = FALSE

\* the loop is at a line, which is ln once its whitespace is collapsed
EatclubAtLine == prog = "eatclub" /\ pc = "parse" /\ idx <= Len(lines)

EatclubContinue ==
    /\ idx' = idx + 1
    /\ UNCHANGED <<in_table, doc, pc, pi, out, items, extra_items, invoices, output>>

\* if not ln: continue
EatclubBlank ==
    /\ EatclubAtLine
    /\ ScanLine(lines[idx]) = << >>
    /\ EatclubContinue

\* the Product Details line: in_table = True; continue
EatclubMarker ==
    /\ EatclubAtLine
    /\ ScanLine(lines[idx]) # << >>
    /\ IsProductDetails(ScanLine(lines[idx]))
    /\ in_table' = TRUE
    /\ idx' = idx + 1
    /\ UNCHANGED <<doc, pc, pi, out, items, extra_items, invoices, output>>

\* the line is neither empty nor the Product Details line
EatclubOtherLine ==
    /\ EatclubAtLine
    /\ ScanLine(lines[idx]) # << >>
    /\ ~IsProductDetails(ScanLine(lines[idx]))

\* if in_table and <Sub Total:>: break
EatclubSubTotal ==
    /\ EatclubOtherLine
    /\ in_table
    /\ IsSubTotal(ScanLine(lines[idx]))
    /\ pc' = "print"
    /\ UNCHANGED <<in_table, doc, pi, out, items, extra_items, idx, invoices, output>>

\* if not in_table: continue
EatclubOutside ==
    /\ EatclubOtherLine
    /\ ~in_table
    /\ EatclubContinue

\* a line in the table that is not the Sub Total line
EatclubTableLine ==
    /\ EatclubOtherLine
    /\ in_table
    /\ ~IsSubTotal(ScanLine(lines[idx]))

\* skip header row
EatclubHeader ==
    /\ EatclubTableLine
    /\ IsDescriptionHeader(ScanLine(lines[idx]))
    /\ EatclubContinue

\* if not m: continue, and if not name or amt is None: continue
EatclubNoItem ==
    /\ EatclubTableLine
    /\ ~IsDescriptionHeader(ScanLine(lines[idx]))
    /\ EatLineItem(ScanLine(lines[idx])) = None
    /\ EatclubContinue

\* items.append({...})
EatclubItem ==
    /\ EatclubTableLine
    /\ ~IsDescriptionHeader(ScanLine(lines[idx]))
    /\ \E it \in {EatLineItem(ScanLine(lines[idx]))} :
           /\ it # None
           /\ items' = Append(items, Val(it))
    /\ idx' = idx + 1
    /\ UNCHANGED <<in_table, doc, pc, pi, out, extra_items, invoices, output>>

\* the lines are used up
EatclubScanEnd ==
    /\ prog = "eatclub"
    /\ pc = "parse"
    /\ idx > Len(lines)
    /\ pc' = "print"
    /\ UNCHANGED <<in_table, doc, pi, out, items, extra_items, idx, invoices, output>>

\* print(json.dumps({'ok': True, ..., 'items': items, ...}))
EatclubPrint ==
    /\ prog = "eatclub"
    /\ pc = "print"
    /\ output' = Some([ok |-> TRUE, items |-> items])
    /\ pc' = "done"
    /\ UNCHANGED <<in_table, doc, pi, out, items, extra_items, idx, invoices>>

EatclubNext ==
    \/ VendorReject
    \/ VendorAccept
    \/ EatclubBlank
    \/ EatclubMarker
    \/ EatclubSubTotal
    \/ EatclubOutside
    \/ EatclubHeader
    \/ EatclubNoItem
    \/ EatclubItem
    \/ EatclubScanEnd
    \/ EatclubPrint

EatclubSpec == EatclubInit /\ [][EatclubNext]_vars

(***************************************************************************)
(* Properties.  What the three Zepto paths produce for the document, each  *)
(* path taken as a whole, and the list the run prints.                     *)
(***************************************************************************)
ZeptoDone == prog = "zepto" /\ pc = "done"

FinalItems == Val(output).items

GridCandidates == table_extract_items(pages).items

TextCandidates == table_extract_items_text(pages).items

LineCandidates == LineItems(lines, GridCandidates \o TextCandidates)

CandidatesOf(grid, text) == grid \o text \o LineItems(lines, grid \o text)

\* the candidates in the order grid table, text table, line pattern
AllCandidates == CandidatesOf(GridCandidates, TextCandidates)

\* the first record of list whose key is k
FirstWithKey(list, k) == list[Least({p \in 1..Len(list) : key(list[p]) = k})]

\* the records of list that are the first with their key, in their order
RECURSIVE FirstOccurrencesFrom(_, _, _)
FirstOccurrencesFrom(list, p, seen) ==
    IF p > Len(list) THEN << >>
    ELSE IF key(list[p]) \in seen THEN FirstOccurrencesFrom(list, p + 1, seen)
    ELSE <<list[p]>> \o FirstOccurrencesFrom(list, p + 1, seen \cup {key(list[p])})

FirstOccurrences(list) == FirstOccurrencesFrom(list, 1, {})

\* a is b with some of its elements left out
RECURSIVE IsSubsequence(_, _)
IsSubsequence(a, b) ==
    IF a = << >> THEN TRUE
    ELSE IF b = << >> THEN FALSE
    ELSE IF Head(a) = Head(b) THEN IsSubsequence(Tail(a), Tail(b))
    ELSE IsSubsequence(a, Tail(b))

\* C1: the list a Zepto run prints never holds two items with the same identity key
\* (tax code, quantity, total, lower-cased name).
C1_NoDuplicateKeys ==
    ZeptoDone =>
        \A p, q \in 1..Len(FinalItems) :
            p # q => key(FinalItems[p]) # key(FinalItems[q])

\* every key of the candidates is in final, its first record there the first candidate
\* with the key
EarliestKept(final, candidates) ==
    \A k \in KeysOf(candidates) :
        /\ k \in KeysOf(final)
        /\ FirstWithKey(final, k) = FirstWithKey(candidates, k)

\* C2: for every identity key some path produced, the list printed holds the key, and
\* the first record holding it is, field for field, the candidate of the earliest path
\* (grid table, text table, line pattern) that produced it: a later candidate with the
\* key has neither replaced nor modified it.
C2_EarliestPathKept == ZeptoDone => EarliestKept(FinalItems, AllCandidates)

\* a finished run in which the grid path and the text-table path produced different
\* records with the same key
C2_SharedKeyReached ==
    /\ ZeptoDone
    /\ \E i \in 1..Len(GridCandidates) : \E j \in 1..Len(TextCandidates) :
           /\ key(GridCandidates[i]) = key(TextCandidates[j])
           /\ GridCandidates[i] # TextCandidates[j]

\* final is made of candidates in their order, and the first records of its keys come
\* in the order of the first records of the candidates' keys
FirstAppearanceKept(final, candidates) ==
    /\ IsSubsequence(final, candidates)
    /\ FirstOccurrences(final) = FirstOccurrences(candidates)

\* C3: the list printed keeps the order of first appearance: its records are
\* candidates in the order the paths produced them, and the first records of the keys
\* come in the order in which the keys were first produced, scanning the grid-table,
\* the text-table and then the line-pattern candidates.
C3_FirstAppearanceOrder == ZeptoDone => FirstAppearanceKept(FinalItems, AllCandidates)

\* a finished run with a grid candidate, a text-table candidate of another key and a
\* line candidate
C3_ThreePathsReached ==
    /\ ZeptoDone
    /\ GridCandidates # << >>
    /\ LineCandidates # << >>
    /\ \E j \in 1..Len(TextCandidates) : key(TextCandidates[j]) \notin KeysOf(GridCandidates)

\* C4: the merge is idempotent: run again on the list it produced, with the same
\* text-table candidates or with the produced list itself as the candidates, or run
\* again on the grid-table candidates with what it kept of the text-table candidates,
\* it gives that list back, same elements in the same order.
C4_MergeIdempotent ==
    (prog = "zepto" /\ pc \in {"mode1", "mode2", "emit", "done"}) =>
        /\ MergeExtra(items, extra_items) = items
        /\ MergeExtra(items, items) = items
        /\ (pc = "mode1" /\ idx = 1) =>
               MergeExtra(GridCandidates,
                          SubSeq(items, Len(GridCandidates) + 1, Len(items))) = items

\* the state the merge leaves when it has appended one text-table candidate and
\* dropped another
C4_MergedReached ==
    /\ prog = "zepto"
    /\ pc = "mode1"
    /\ idx = 1
    /\ Len(items) > Len(GridCandidates)
    /\ Len(items) < Len(GridCandidates) + Len(extra_items)

\* C5: the Zepto table paths never raise, whatever the rows and cells of the tables.
C5_NeverRaises == prog = "zepto" => pc # "raised"

\* the pages on which a header anchor is found
RECURSIVE HeaderPages(_)
HeaderPages(pgs) ==
    IF pgs = << >> THEN << >>
    ELSE IF HeaderTop(Head(pgs).words) = None THEN HeaderPages(Tail(pgs))
    ELSE <<Head(pgs)>> \o HeaderPages(Tail(pgs))

\* the grid table of the one page of a document whose table has `rows` rows after the
\* header row
OneTable(rows) ==
    /\ Len(pages) = 1
    /\ HeaderTop(pages[1].words) # None
    /\ pages[1].grid # << >>
    /\ Len(pages[1].grid[1]) = rows + 1

TheTable == pages[1].grid[1]

TheCols ==
    Cols(IdxDesc(GridHeader(TheTable)), IdxHsn(GridHeader(TheTable)),
         IdxQty(GridHeader(TheTable)), IdxTotal(GridHeader(TheTable)))

\* row is an item row with a cell for every column and one value per cell
IsPlainItemRow(row) ==
    /\ Len(row) = Len(TheTable[1])
    /\ Lower(Strip(CellStr(row[1]))) \notin {T_item_total, T_total, T_invoice_value}
    /\ Strip(CellStr(row[TheCols.desc])) # << >>
    /\ \A c \in 1..Len(row) : ~Contains(CellStr(row[c]), <<"\n">>)

\* the candidate of a plain item row: every field as extracted, unknown where its cell
\* does not parse
PlainCandidate(row) ==
    TableItem(IF IsDigitStr(Strip(CellStr(row[1]))) THEN Some(DigitsVal(Strip(CellStr(row[1]))))
              ELSE None,
              CollapseWs(Strip(CellStr(row[TheCols.desc]))),
              HsnOf(ColText(row, TheCols.hsn)),
              QtyOf(ColText(row, TheCols.qty)),
              fnum(Some(Strip(CellStr(row[TheCols.total])))))

\* the quantity cell or the total cell of the row does not parse
HasUnparsedCell(row) ==
    \/ QtyOf(ColText(row, TheCols.qty)) = None
    \/ fnum(Some(Strip(CellStr(row[TheCols.total])))) = None

\* C6: a table row whose quantity or total cell fails to parse still yields its
\* candidate, that field unknown and every other field as extracted.
C6_FieldLocal ==
    (ZeptoDone /\ OneTable(Len(pages[1].grid[1]) - 1)) =>
        \A r \in 2..Len(TheTable) :
            (IsPlainItemRow(TheTable[r]) /\ HasUnparsedCell(TheTable[r])) =>
                \E p \in 1..Len(FinalItems) : FinalItems[p] = PlainCandidate(TheTable[r])

\* the invoices the Blinkit loop appends for the pages q..upto, none of them raising:
\* those of the pages with header anchor and table
RECURSIVE BlinkitInvoicesOf(_, _, _)
BlinkitInvoicesOf(pgs, q, upto) ==
    IF q > upto THEN << >>
    ELSE (IF BlinkitHeaderTop(pgs[q].words) # None /\ pgs[q].grid # << >>
          THEN BlinkitTable(pgs[q].grid[1], q).items
          ELSE << >>)
         \o BlinkitInvoicesOf(pgs, q + 1, upto)

\* C7: a page without header anchor contributes no table-path candidate and ends
\* nothing: in both Zepto table paths and in the Blinkit loop, what has been collected
\* is what the pages with header anchor read so far contribute, no exception comes from
\* a page without header anchor, and a Zepto document without any header anchor still
\* gets the items of its text lines.
C7_NoHeaderPageLocal ==
    /\ pc = "grid" => out = table_extract_items(HeaderPages(SubSeq(pages, 1, pi - 1))).items
    /\ pc = "text" => out = table_extract_items_text(HeaderPages(SubSeq(pages, 1, pi - 1))).items
    /\ pc = "invoices" => invoices = BlinkitInvoicesOf(pages, 1, pi - 1)
    /\ pc = "raised" => HeaderTop(pages[pi].words) # None
    /\ (pc = "overall" /\ pi <= Len(pages)) => BlinkitHeaderTop(pages[pi].words) # None
    /\ (ZeptoDone /\ HeaderPages(pages) = << >>) => FinalItems = LineItems(lines, << >>)

\* a finished run over a page without header anchor followed by a page with one, whose
\* table candidates are in the list printed
C7_SkippedPageReached ==
    /\ ZeptoDone
    /\ \E q \in 1..Len(pages) : \E r \in (q + 1)..Len(pages) :
           /\ HeaderTop(pages[q].words) = None
           /\ pages[q].grid # << >>
           /\ HeaderTop(pages[r].words) # None
           /\ GridPageResult(pages[r]).items # << >>
           /\ IsSubsequence(GridPageResult(pages[r]).items, FinalItems)

\* page q of a Blinkit document holds an item table under a header anchor
HasInvoice(q) ==
    /\ BlinkitHeaderTop(pages[q].words) # None
    /\ pages[q].grid # << >>
    /\ pages[q].grid[1] # << >>

\* C8: in the Blinkit page loop a failure on one page keeps no later page from being
\* processed: every page holding an item table has its invoice in the list printed.
C8_LaterPagesProcessed ==
    (prog = "blinkit" /\ pc = "done") =>
        \A q \in 1..Len(pages) :
            HasInvoice(q) =>
                \E n \in 1..Len(Val(output).invoices) :
                    Val(output).invoices[n].page_index = q - 1

\* the markers that identify a vendor's documents: those its parser looks for, and for
\* a parser that looks for none the vendor's name
VendorMarkers(p) ==
    CASE p = "zepto" -> {<<"z", "e", "p", "t", "o">>}
      [] p = "blinkit" -> {<<"b", "l", "i", "n", "k", "i", "t">>}
      [] OTHER -> Markers(p)

Rejection(p) ==
    CASE p = "zepto" -> [ok |-> FALSE, reason |-> "not_zepto"]
      [] p = "blinkit" -> [ok |-> FALSE, reason |-> "not_blinkit"]
      [] OTHER -> NotVendor(p)

\* C9: every parser, run on a text that holds none of its vendor's markers, ends
\* without exception and prints {ok: false, reason: "not_<vendor>"}, with no items.
C9_VendorMismatch ==
    (pc \in {"done", "raised"} /\ \A m \in VendorMarkers(prog) : ~InText(lines, m)) =>
        /\ pc = "done"
        /\ DOMAIN Val(output) = {"ok", "reason"}
        /\ Val(output) = Rejection(prog)

\* the i-th of the k candidates of a merged row: the i-th sub-value of each cell
PositionalCandidate(row, i) ==
    TableItem(IF i <= Len(SplitCol(row, 1)) /\ IsDigitStr(SplitCol(row, 1)[i])
              THEN Some(DigitsVal(SplitCol(row, 1)[i])) ELSE None,
              SplitCol(row, TheCols.desc)[i],
              IF i <= Len(SplitCol(row, TheCols.hsn))
              THEN Some(SplitCol(row, TheCols.hsn)[i]) ELSE None,
              IF i <= Len(SplitCol(row, TheCols.qty))
              THEN IntOfFloat(SplitCol(row, TheCols.qty)[i]) ELSE None,
              IF i <= Len(SplitCol(row, TheCols.total))
              THEN fnum(Some(SplitCol(row, TheCols.total)[i])) ELSE None)

\* row is a merged row: its description cell holds newline-joined values
IsMergedRow(row) ==
    /\ TheCols.desc # 0
    /\ TheCols.total # 0
    /\ Len(row) >= TheCols.desc
    /\ Lower(Strip(CellStr(row[1]))) \notin {T_item_total, T_total, T_invoice_value}
    /\ Contains(Strip(CellStr(row[TheCols.desc])), <<"\n">>)

\* C10: a grid-table row whose description cell holds k newline-joined values yields
\* exactly k candidates, the i-th with the i-th sub-value of the serial, tax-code,
\* quantity and total cells.  Stated for the table with that one row, on the list
\* table_extract_items returns.
C10_ExactlyK ==
    (prog = "zepto" /\ pc = "text" /\ pi = 1 /\ out = << >>
         /\ OneTable(1) /\ IsMergedRow(TheTable[2])) =>
        items = [i \in 1..Len(SplitCol(TheTable[2], TheCols.desc)) |->
                    PositionalCandidate(TheTable[2], i)]

\* the column of the tax code in a text table
CodeCell == IdxHsn(GridHeader(<<TextHeaderRow>>))

\* the rows as printed on the invoice, every field in its own cell
WholeRows == {TR_lemon, TR_rice, TR_apple7, TR_salt6}

\* the rows of the text tables of the pages
TextTableRows ==
    UNION {{pages[q].text[1][r] : r \in 2..Len(pages[q].text[1])} :
              q \in {q \in 1..Len(pages) : pages[q].text # << >>}}

\* C11: a known-length (8-digit) code split across two adjacent numeric cells is
\* repaired to the undivided code, the other cells as printed; and a row whose 6- or
\* 7-digit code is followed by its quantity cell is left as it is, no digit of the
\* quantity moving into the code.
C11_SplitRepaired ==
    (prog = "zepto" /\ pc = "merge") =>
        \A row \in TextTableRows : \A w \in WholeRows :
            /\ (/\ Len(Val(w[CodeCell])) = HsnLen
                /\ \E p \in 1..(HsnLen - 1) : row = CutCell(w, CodeCell, p))
               => RepairSplit(TextCells(row), 1) = TextCells(w)
            /\ (row = w /\ Len(Val(w[CodeCell])) < HsnLen)
               => RepairSplit(TextCells(row), 1) = TextCells(row)

(***************************************************************************)
(* The names the line-pattern path assembles.  The documents looked at     *)
(* have no page, so that the list printed holds the Mode 1 items, one per  *)
(* item line, in the order of the lines.                                   *)
(***************************************************************************)
\* the lines on which Mode 1 finds an item
ItemLines == {i \in 1..Len(lines) : Mode1Line(lines, i) # << >>}

\* a finished Zepto run on a document without pages
LinesDone == ZeptoDone /\ pages = << >>

LinesOnly == LinesDone /\ ItemLines # {}

\* the item of item line i in the list printed, S being the item lines
ItemAmong(S, i) == FinalItems[Cardinality({j \in S : j <= i})]

ItemOf(i) == ItemAmong(ItemLines, i)

\* the name the grammar match gives on item line i, without its context
BaseName(i) == Mode1Line(<<lines[i]>>, 1)[1].name

\* the name assembled for item line i when only the lines lo..hi are walked
NameWithin(i, lo, hi) ==
    StripSpHy(CollapseWs(JoinSp(
        Reverse(PrefixWalk(lines, i - 1, Max2(ItemsSectionStart(lines), lo), << >>))
        \o <<BaseName(i)>>
        \o SuffixWalk(SubSeq(lines, 1, Min2(hi, Len(lines))), i + 1, << >>))))

\* the first line above item line i that is denylisted, noise or a pack-size fragment
\* (0 if there is none), and the first line below it that is denylisted, a totals
\* marker or an item line
UpStop(i) ==
    Max2(0, IF \E j \in 1..(i - 1) : PrefixVerdict(Strip(lines[j])) = "stop"
                 \/ looks_like_header_or_address(lines[j]) \/ is_noise_line(lines[j])
            THEN CHOOSE j \in 1..(i - 1) :
                    /\ \/ PrefixVerdict(Strip(lines[j])) = "stop"
                       \/ looks_like_header_or_address(lines[j])
                       \/ is_noise_line(lines[j])
                    /\ \A j2 \in (j + 1)..(i - 1) :
                          ~(\/ PrefixVerdict(Strip(lines[j2])) = "stop"
                            \/ looks_like_header_or_address(lines[j2])
                            \/ is_noise_line(lines[j2]))
            ELSE 0)

DownStop(i) ==
    Least({k \in (i + 1)..Len(lines) : SuffixVerdict(Strip(lines[k])) = "stop"}
          \cup {Len(lines) + 1})

\* C12: the walks never cross an address/header or totals boundary: the name of an
\* item is assembled from the lines between the first denylisted or noise line above
\* the item line and the first totals marker or denylisted line below it, and from no
\* line beyond them.
C12_NoBoundaryCrossed ==
    LinesOnly =>
        \A i \in ItemLines : ItemOf(i).name = NameWithin(i, UpStop(i) + 1, DownStop(i) - 1)

\* C13: the walks are bounded in lines: the name of an item is assembled from the
\* MaxPrefix lines before the item line and the MaxSuffix lines after it, whatever
\* the lines hold.
C13_WalksBounded ==
    LinesOnly =>
        \A i \in ItemLines : ItemOf(i).name = NameWithin(i, i - MaxPrefix, i + MaxSuffix)

\* a line that holds a number, a percentage or a signed decimal and nothing else
IsNumberOnly(t) == IsPctOptional(Strip(t)) \/ IsSignedMoney(Strip(t))

\* the document with every such line blanked
Blanked(lns) == [j \in 1..Len(lns) |-> IF IsNumberOnly(lns[j]) THEN << >> ELSE lns[j]]

\* found is one item and name is its name
IsNameOf(name, found) == found # << >> /\ name = found[1].name

\* every item of the item lines S has the name Mode 1 gives it in the document bl
NumbersAreNoiseIn(S, bl) == \A i \in S : IsNameOf(ItemAmong(S, i).name, Mode1Line(bl, i))

\* C14: a line that holds only a number, a percentage or a signed decimal is never a
\* name fragment: every item has the name it has in the document in which these
\* lines are blank.
C14_NumbersAreNoise == LinesDone => NumbersAreNoiseIn(ItemLines, Blanked(lines))

\* an item with fragments in its name, a number-only line above its line and one below
C14_NumbersAroundReached ==
    /\ LinesOnly
    /\ \E i \in ItemLines :
           /\ ItemOf(i).name # BaseName(i)
           /\ \E j \in 1..(i - 1) : IsNumberOnly(lines[j])
           /\ \E k \in (i + 1)..Len(lines) : IsNumberOnly(lines[k])

\* the lines of ls with index in S, in the order of the document
RECURSIVE LinesAt(_, _)
LinesAt(ls, S) ==
    IF S = {} THEN << >> ELSE <<ls[Least(S)]>> \o LinesAt(ls, S \ {Least(S)})

\* the lines of the document, stripped
StrippedLines == [j \in 1..Len(lines) |-> Strip(lines[j])]

\* name begins with the fragments of head, and is them followed by some lines of ls
\* below line i, in order
EndsInOrder(name, head, ls, i) ==
    /\ StartsWith(name, StripSpHy(CollapseWs(JoinSp(head))))
    /\ \E D \in SUBSET ((i + 1)..Len(ls)) :
           name = StripSpHy(CollapseWs(JoinSp(head \o LinesAt(ls, D))))

\* name is some lines of ls above line i in order, then base, then lines below in order
InDocumentOrder(name, base, ls, i) ==
    \E U \in SUBSET (1..(i - 1)) : EndsInOrder(name, LinesAt(ls, U) \o <<base>>, ls, i)

NamesInDocumentOrder(S, ls) ==
    \A i \in S : InDocumentOrder(ItemAmong(S, i).name, BaseName(i), ls, i)

\* C15: the name of a line-pattern item is, in this order, lines from above the item
\* line in their top-to-bottom order, the base name of the grammar match, and lines
\* from below the item line in their order, joined by single spaces.
C15_NameInDocumentOrder == LinesDone => NamesInDocumentOrder(ItemLines, StrippedLines)

\* an item whose name holds two different fragments from above and two from below
C15_TwoEachSideReached ==
    /\ LinesOnly
    /\ \E i \in ItemLines :
           /\ PrefixWalk(lines, i - 1, ItemsSectionStart(lines), << >>) = <<L_organic, L_fresh>>
           /\ SuffixWalk(lines, i + 1, << >>) = <<L_pack, L_kg>>
           /\ ItemOf(i).name # BaseName(i)

\* the total of it is below the threshold beside a known taxable amount that it does
\* not equal, both tax amounts being zero
HasConfusedTotal(it) ==
    /\ it.total # None
    /\ Val(it.total) < TotalThreshold
    /\ it.taxable # None
    /\ IsZeroOrNone(it.cgst_amt)
    /\ IsZeroOrNone(it.sgst_amt)
    /\ it.total # it.taxable

\* C16: the total/taxable confusion repair is applied to the candidates of the table
\* path and of the text path: no item of the list a Zepto run prints has a total
\* below the threshold beside a known taxable amount, both tax amounts zero, unless
\* total equals taxable.
C16_TotalRepaired ==
    ZeptoDone => \A p \in 1..Len(FinalItems) : ~HasConfusedTotal(FinalItems[p])

\* the names of the rules applied so far
Applied == {out[k] : k \in 1..Len(out)}

\* it with the total rule applied once if b, untouched otherwise
TotalOnceIf(b, it) == IF b THEN TotalRepair(it) ELSE it

\* it with the name rule applied once if b, untouched otherwise
NameOnceIf(b, it) == IF b THEN NameRepair(it) ELSE it

\* C17: the two repair rules are idempotent and order-independent: however often
\* and in whichever order they have been applied to a matched item, the item is the
\* one obtained by applying each of the rules used once, the total rule first.
C17_RepairsIdempotentAnyOrder ==
    pc = "repairs" =>
        items[1] = NameOnceIf("name" \in Applied, TotalOnceIf("total" \in Applied, extra_items[1]))

\* the name rule was applied before the total rule and then a second time, on an item
\* that each of the two rules changes
C17_BothRulesRepeatedReached ==
    /\ pc = "repairs"
    /\ out = <<"name", "total", "name", "total">>
    /\ TotalRepair(extra_items[1]) # extra_items[1]
    /\ NameRepair(extra_items[1]) # extra_items[1]

\* the documents of the well-formed line: the line alone, or after the section anchor
\* and before the declared total, with no table
WellFormedLineDoc ==
    /\ lines \in {<<L_wellFormed>>, <<L_sr, L_wellFormed, L_itemTotal>>}
    /\ GridCandidates = << >>
    /\ TextCandidates = << >>

\* C18: the strict line grammar accepts a well-formed line whose percentages are
\* written as integers or decimals and which has a cess percentage: a Zepto run on
\* the line "1 Lemon 7031010 2 10.00 0% 20.00 2.5% 2.5% 0.50 0.50 0% 0.00 21.00"
\* prints exactly one item, with name "Lemon", quantity 2 and total 21.00.
C18_WellFormedLineAccepted ==
    (ZeptoDone /\ WellFormedLineDoc) =>
        /\ Len(FinalItems) = 1
        /\ FinalItems[1].name = <<"L", "e", "m", "o", "n">>
        /\ FinalItems[1].qty = Some(2)
        /\ FinalItems[1].total = Some(2100)

\* C19: every item of the list a Zepto run prints, whichever path produced it, has a
\* non-empty name with at least one alphabetic character.
C19_NamesHaveLetter ==
    ZeptoDone => \A p \in 1..Len(FinalItems) :
                     FinalItems[p].name # << >> /\ HasLetter(FinalItems[p].name)

\* Mode 1 produced no candidate from the page text
Mode1FoundNothing == Mode1From(lines, 1) = << >>

\* C20: once Mode 1 has scanned the lines of a Zepto document, the next step is the
\* Mode 2 scan if and only if Mode 1 produced zero candidates from the page text,
\* whatever the table paths produced.
C20_Mode2IffMode1Empty ==
    [][(prog = "zepto" /\ pc = "mode2") => (Mode2Run <=> Mode1FoundNothing)]_vars

BlinkitDone == prog = "blinkit" /\ pc = "done"

\* a money value is unknown or not below zero
NonNegative(v) == v = None \/ Val(v) >= 0

ZeptoMoneyFields == {"rate", "taxable", "cgst_amt", "sgst_amt", "cess_amt", "total"}

BlinkitMoneyFields == {"total", "mrp", "discount"}

\* C22: every known money value of an item or of an invoice total that a run prints
\* is non-negative, whatever the cells hold.
C22_MoneyNonNegative ==
    /\ ZeptoDone =>
           \A p \in 1..Len(FinalItems) : \A f \in ZeptoMoneyFields : NonNegative(FinalItems[p][f])
    /\ BlinkitDone =>
           /\ NonNegative(Val(output).overall_total)
           /\ \A k \in 1..Len(Val(output).invoices) :
                  /\ NonNegative(Val(output).invoices[k].invoice_total)
                  /\ \A p \in 1..Len(Val(output).invoices[k].items) :
                         \A f \in BlinkitMoneyFields :
                             NonNegative(Val(output).invoices[k].items[p][f])

\* the invoices printed, and those among them whose total is known
PrintedInvoices == Val(output).invoices

KnownTotals == {k \in 1..Len(PrintedInvoices) : PrintedInvoices[k].invoice_total # None}

\* the sum of the invoice totals with index in S
RECURSIVE SumKnown(_, _)
SumKnown(invs, S) ==
    IF S = {} THEN 0
    ELSE Val(invs[Least(S)].invoice_total) + SumKnown(invs, S \ {Least(S)})

\* overall is the sum over the known totals, unknown when there are none
IsSumOfKnown(overall, invs, known) ==
    /\ overall = None <=> known = {}
    /\ known # {} => overall = Some(SumKnown(invs, known))

\* C23: the grand total a Blinkit run prints is the sum of the invoice totals of the
\* invoices whose total is known, and is null exactly when no invoice has a known
\* total; an invoice without known total contributes nothing.
C23_OverallIsSumOfKnown ==
    BlinkitDone => IsSumOfKnown(Val(output).overall_total, PrintedInvoices, KnownTotals)

\* two invoices with different known totals and their sum printed
C23_TwoTotalsSummedReached ==
    /\ BlinkitDone
    /\ Len(PrintedInvoices) = 2
    /\ PrintedInvoices[1].invoice_total = Some(5000)
    /\ PrintedInvoices[2].invoice_total = Some(4000)
    /\ Val(output).overall_total = Some(9000)

\* The totals of the printed items, added up.
RECURSIVE SumItemTotals(_)
SumItemTotals(its) ==
    IF its = << >> THEN 0 ELSE Plus(SumItemTotals(Tail(its)), Head(its).total)

\* The keys of the printed output whose values are read from the text or are the items.
ExtractedKeys == {"merchant", "item_total", "handling_fee", "invoice_value", "items"}

\* The values the printed output carries beyond the extracted ones.
ComputedValues(o) == {o[k] : k \in DOMAIN o \ ExtractedKeys}

\* C24: next to the declared total read from the page text, the printed Zepto output
\* carries a computed total equal to the sum of the totals of the printed items, and
\* the declared total and the items are printed as they were extracted.
C24_ComputedTotalReported ==
    ZeptoDone =>
        /\ Val(output).item_total = fnum(item_total_of(JoinLines(lines)))
        /\ Val(output).items = items
        /\ Some(SumItemTotals(items)) \in ComputedValues(Val(output))

\* The columns of a header row that hold 'total', and the last of them.
TotalColumns(header) ==
    {i \in 1..Len(header) : Contains(Lower(Strip(CellStr(header[i]))), T_total)}

LastTotalColumn(header) == CHOOSE i \in TotalColumns(header) : \A j \in TotalColumns(header) : j <= i

SeveralTotals(tb) == tb # << >> /\ Cardinality(TotalColumns(tb[1])) >= 2

\* The first grid table of every page has a header with several 'total' columns, and
\* the document has nothing else to take items from.
SeveralTotalsDoc ==
    /\ pages # << >>
    /\ lines = << >>
    /\ \A p \in 1..Len(pages) :
           pages[p].text = << >> /\ pages[p].grid # << >> /\ SeveralTotals(pages[p].grid[1])

\* The amounts in the last 'total' column of the rows of the pages' first grid tables.
LastTotalAmounts ==
    UNION {{fnum(Some(CellStr(pages[p].grid[1][r][LastTotalColumn(pages[p].grid[1][1])]))) :
               r \in 2..Len(pages[p].grid[1])} : p \in 1..Len(pages)}

TotalsAmong(its, amounts) == \A i \in 1..Len(its) : its[i].total \in amounts

\* C25: where a header row has several columns that hold 'total', the total of every
\* printed item is read from the last of them, in the Zepto and in the Blinkit parser.
C25_LastTotalColumnUsed ==
    /\ (ZeptoDone /\ SeveralTotalsDoc) => TotalsAmong(FinalItems, LastTotalAmounts)
    /\ (BlinkitDone /\ SeveralTotalsDoc) =>
           \A k \in 1..Len(PrintedInvoices) :
               TotalsAmong(PrintedInvoices[k].items, LastTotalAmounts)

\* The page the Blinkit page loop is at, and the page the Zepto grid loop is at.
AtBlinkitPage == prog = "blinkit" /\ pc = "invoices" /\ pi <= Len(pages)

AtZeptoPage == prog = "zepto" /\ pc = "grid" /\ pi <= Len(pages)

\* A footer anchor, where one is chosen, is left of the limit, and more than the gap
\* below the header anchor.
FooterOnLeft(words, footer, limit) == footer # None => words[Val(footer)].x0 < limit

FooterBelow(words, footer, header_top, gap) ==
    footer # None => words[Val(footer)].top > Val(header_top) + gap

BlinkitFooterPlaced(words, header_top) ==
    /\ FooterOnLeft(words, TotalRowWord(words, Val(header_top)), 100)
    /\ FooterBelow(words, TotalRowWord(words, Val(header_top)), header_top, 50)

\* C26: on every page with a header anchor, the footer anchor that bounds the table
\* region lies left of the x-offset threshold and below the header anchor by more than
\* the minimum gap (100 and 50 in the Blinkit locator), so that a 'total' on the header
\* row itself is never the footer; the Zepto locator names neither number and is held
\* to its footer anchor lying below the header anchor.
C26_FooterBelowHeader ==
    /\ (AtBlinkitPage /\ BlinkitHeaderTop(pages[pi].words) # None) =>
           BlinkitFooterPlaced(pages[pi].words, BlinkitHeaderTop(pages[pi].words))
    /\ (AtZeptoPage /\ HeaderTop(pages[pi].words) # None) =>
           FooterBelow(pages[pi].words, ItemTotalWord(pages[pi].words),
                       HeaderTop(pages[pi].words), 0)

\* The cells written one after the other.
RECURSIVE Concat(_)
Concat(cells) == IF cells = << >> THEN << >> ELSE Head(cells) \o Concat(Tail(cells))

SplitDone == prog = "split" /\ pc = "split_done"

\* A step that moves the first n characters of cell k+1, all digits, to the end of cell
\* k, and removes cell k+1 if and only if nothing is left of it.
MovesDigits(before, after, k, n) ==
    /\ \A c \in 1..n : before[k + 1][c] \in DigitChars
    /\ after[k] = before[k] \o SubSeq(before[k + 1], 1, n)
    /\ \A j \in 1..(k - 1) : after[j] = before[j]
    /\ IF n = Len(before[k + 1])
       THEN /\ Len(after) = Len(before) - 1
            /\ \A j \in (k + 1)..Len(after) : after[j] = before[j + 1]
       ELSE /\ Len(after) = Len(before)
            /\ after[k + 1] = SubSeq(before[k + 1], n + 1, Len(before[k + 1]))
            /\ \A j \in (k + 2)..Len(after) : after[j] = before[j]

SplitStepMovesOnly ==
    \/ lines' = lines
    \/ \E k \in 1..(Len(lines) - 1) : \E n \in 1..Len(lines[k + 1]) :
           MovesDigits(lines, lines', k, n)

\* What is left of the loop: two for every cell ahead of i, less one for a cell
\* already looked at.
SplitRest == 2 * Len(lines) - idx

\* C27: the digit-split repair loop over the cells of a row ends, for every row; the
\* cells written one after the other are the same text at every step of it; a step
\* only moves leading digits of a cell to the end of the cell before it and removes a
\* cell only when nothing is left of it; and every step brings the end nearer.
C27_SplitRepairEndsKeepingText ==
    /\ <>SplitDone
    /\ [](Concat(lines) = Concat(out) /\ \A k \in 1..Len(lines) : lines[k] # << >>)
    /\ [][SplitStepMovesOnly]_vars
    /\ [][pc = "split" /\ pc' = "split" => SplitRest' < SplitRest]_vars

\* A row whose split tax code was repaired with a cell used up and removed.
C27_CellUsedUpReached ==
    /\ SplitDone
    /\ out = <<C_name, C_hsn7, C_qty1>>
    /\ lines = <<C_name, C_hsn7 \o C_qty1>>

\* The table window of the scanned text: the lines after the first Product Details
\* line and before the first Sub Total: line that follows it.
MarkerLines == {i \in 1..Len(lines) : Lower(ScanLine(lines[i])) = T_product_details}

SubTotalLabelled(ln) ==
    StartsWith(Lower(RemoveChar(ln, " ")), RemoveChar(T_sub_total, " ") \o <<":">>)

WindowStart == IF MarkerLines = {} THEN Len(lines) + 1 ELSE Least(MarkerLines)

SubTotalsAfter(start) ==
    {i \in 1..Len(lines) : i > start /\ SubTotalLabelled(ScanLine(lines[i]))}

WindowEndAfter(ends) == IF ends = {} THEN Len(lines) + 1 ELSE Least(ends)

WindowEnd == WindowEndAfter(SubTotalsAfter(WindowStart))

InWindow(i) == WindowStart < i /\ i < WindowEnd

EatclubRun == prog = "eatclub" /\ pc # "check"

\* C28: in the EatClub scan an item is emitted only from a line after the first
\* Product Details line and before the first Sub Total: line that follows it, one item
\* at a time; the scan never goes beyond that Sub Total: line, and once the scan is
\* over the items stay as they are.
C28_ItemsOnlyFromTableWindow ==
    /\ [][(EatclubRun /\ items' # items) =>
             (pc = "parse" /\ InWindow(idx) /\ Len(items') = Len(items) + 1
              /\ SubSeq(items', 1, Len(items)) = items)]_vars
    /\ [][(EatclubRun /\ pc = "parse" /\ idx = WindowEnd) => (pc' = "print" /\ idx' = idx)]_vars
    /\ [](EatclubRun => idx <= WindowEnd)

\* A text with an item line before the Product Details line, one in the table and one
\* after the Sub Total: line, printed with the one item of the table.
C28_OnlyTableItemPrinted ==
    /\ prog = "eatclub"
    /\ pc = "done"
    /\ lines = <<E_brand, E_pizza, E_product, E_pizza, E_subTotal, E_pizza>>
    /\ Len(Val(output).items) = 1
    /\ Val(output).items[1].name = SubSeq(E_pizza, 1, 17)

====
